---- MODULE Spec2Model ----
(***************************************************************************)
(* A model of the text path of the PDF result-sheet scraper                *)
(* (src/final_pdf_scraper.py): FinalPDFScraper.extract_all_table_data,     *)
(* the table locator and the row extractor.                                *)
(*                                                                         *)
(* Text is modelled as TLA+ strings over ASCII; lines, tokens, trimming,   *)
(* splitting, upper-casing and the regular expressions of the source are   *)
(* operators computed character by character.  Indices are 0-based as in   *)
(* the source: line k of the source is lines[k + 1] here.                  *)
(***************************************************************************)
EXTENDS Integers, Sequences, FiniteSets, TLC

(***************************************************************************)
(* Characters and strings                                                  *)
(***************************************************************************)
Ch(s, k) == SubSeq(s, k, k)

Digits == {"0", "1", "2", "3", "4", "5", "6", "7", "8", "9"}

LowerLetters == "abcdefghijklmnopqrstuvwxyz"

UpperLetters == "ABCDEFGHIJKLMNOPQRSTUVWXYZ"

\* the characters \s matches (ASCII input)
IsSpace(c) == c \in {" ", "\t"}

LowerSet == {Ch(LowerLetters, k) : k \in 1..26}

UpperSet == {Ch(UpperLetters, k) : k \in 1..26}

IsUpperLetter(c) == c \in UpperSet

\* the upper-case letter of each lower-case letter
UpperOf ==
  [c \in LowerSet |->
     Ch(UpperLetters, CHOOSE k \in 1..26 : Ch(LowerLetters, k) = c)]

\* str.upper() on one character
UpperCh(c) == IF c \in LowerSet THEN UpperOf[c] ELSE c

RECURSIVE Upper(_)
\* str.upper(), by halves
Upper(s) ==
  IF s = "" THEN ""
  ELSE IF Len(s) = 1 THEN UpperCh(s)
  ELSE LET h == Len(s) \div 2
       IN  Upper(SubSeq(s, 1, h)) \o Upper(SubSeq(s, h + 1, Len(s)))

\* the k-th smallest element of a set of integers
Nth(S, k) == CHOOSE p \in S : Cardinality({q \in S : q < p}) = k - 1

\* str.strip(): drop the whitespace in front and the whitespace behind
Strip(s) ==
  LET n == Len(s)
      lead == Cardinality({p \in 1..n : \A q \in 1..p : IsSpace(Ch(s, q))})
      trail == Cardinality({p \in 1..n : \A q \in p..n : IsSpace(Ch(s, q))})
  IN  IF lead = n THEN "" ELSE SubSeq(s, lead + 1, n - trail)

\* a digit test that looks at the first character only
IsDigitStrFirstOnly(s) == s # "" /\ Head(s) \in Digits

\* str.isdigit(): non-empty and every character a digit
IsDigitStr(s) == s # "" /\ \A k \in 1..Len(s) : Ch(s, k) \in Digits

DigitVal(c) == CHOOSE n \in 0..9 : Ch("0123456789", n + 1) = c

RECURSIVE ToInt(_)
\* int() of an all-digit string
ToInt(s) ==
  IF s = "" THEN 0
  ELSE 10 * ToInt(SubSeq(s, 1, Len(s) - 1)) + DigitVal(Ch(s, Len(s)))

\* the substring test "kw in s"
Contains(s, kw) ==
  \E p \in 1..(Len(s) - Len(kw) + 1) : SubSeq(s, p, p + Len(kw) - 1) = kw

StartsWithAt(s, p, lit) ==
  /\ p + Len(lit) - 1 <= Len(s)
  /\ SubSeq(s, p, p + Len(lit) - 1) = lit

\* str.split(sep) for a one-character separator: the fields between
\* consecutive occurrences of sep, one more field than occurrences
SplitOn(s, sep) ==
  LET at == {p \in 1..Len(s) : Ch(s, p) = sep}
      n == Cardinality(at)
      from(k) == IF k = 1 THEN 1 ELSE Nth(at, k - 1) + 1
      upto(k) == IF k = n + 1 THEN Len(s) ELSE Nth(at, k) - 1
  IN  [k \in 1..(n + 1) |-> SubSeq(s, from(k), upto(k))]

\* text.split('\n')
SplitLines(t) == SplitOn(t, "\n")

\* re.split(r'\s+', s): the fields between maximal runs of whitespace; the
\* empty string gives one empty field, and whitespace at either end gives
\* an empty field at that end
SplitWS(s) ==
  LET runStart == {p \in 1..Len(s) :
                     IsSpace(Ch(s, p)) /\ (p = 1 \/ ~IsSpace(Ch(s, p - 1)))}
      runEnd == {p \in 1..Len(s) :
                   IsSpace(Ch(s, p)) /\ (p = Len(s) \/ ~IsSpace(Ch(s, p + 1)))}
      n == Cardinality(runStart)
      from(k) == IF k = 1 THEN 1 ELSE Nth(runEnd, k - 1) + 1
      upto(k) == IF k = n + 1 THEN Len(s) ELSE Nth(runStart, k) - 1
  IN  [k \in 1..(n + 1) |-> SubSeq(s, from(k), upto(k))]

RECURSIVE Join(_)
\* ' '.join(parts)
Join(parts) ==
  IF parts = <<>> THEN ""
  ELSE IF Len(parts) = 1 THEN parts[1]
  ELSE parts[1] \o " " \o Join(Tail(parts))

RECURSIVE JoinLines(_)
\* '\n'.join(ls), by halves
JoinLines(ls) ==
  IF ls = <<>> THEN ""
  ELSE IF Len(ls) = 1 THEN ls[1]
  ELSE LET h == Len(ls) \div 2
       IN  JoinLines(SubSeq(ls, 1, h)) \o "\n"
             \o JoinLines(SubSeq(ls, h + 1, Len(ls)))

RECURSIVE Flatten(_)
\* the concatenation of a sequence of sequences, in order
Flatten(ss) == IF ss = <<>> THEN <<>> ELSE Head(ss) \o Flatten(Tail(ss))

Min(a, b) == IF a <= b THEN a ELSE b

\* the Python slice xs[a:b] with 0 <= a
Slice(xs, a, b) == SubSeq(xs, a + 1, Min(b, Len(xs)))

\* the Python slice parts[1:-1]
Interior(parts) == SubSeq(parts, 2, Len(parts) - 1)

(***************************************************************************)
(* Token classes of the row extractor                                      *)
(***************************************************************************)
YearLo == 2020

YearHi == 2030

\* part.isdigit() and len(part) == 4 and 2020 <= int(part) <= 2030
IsCalendarYear(part) ==
  /\ IsDigitStr(part)
  /\ Len(part) = 4
  /\ YearLo <= ToInt(part)
  /\ ToInt(part) <= YearHi

YearCodes == {"FR", "SO", "JR", "SR", "GR"}

\* re.match(r'^(FR|SO|JR|SR|GR)[-]?\d*$', part.upper())
IsYearCode(part) ==
  LET u == Upper(part)
      rest == SubSeq(u, 3, Len(u))
      tail == IF rest # "" /\ Head(rest) = "-" THEN Tail(rest) ELSE rest
  IN  /\ Len(u) >= 2
      /\ SubSeq(u, 1, 2) \in YearCodes
      /\ \A k \in 1..Len(tail) : Ch(tail, k) \in Digits

IsYearToken(part) == IsCalendarYear(part) \/ IsYearCode(part)

\* the time pattern required to match the whole token
TimeMatchesWhole(t) ==
  LET seps == {k \in 1..Len(t) : Ch(t, k) \notin Digits}
  IN  /\ t # ""
      /\ Head(t) \in Digits
      /\ Cardinality(seps) <= 1
      /\ \A k \in seps : Ch(t, k) \in {":", "."}

\* re.match(r'\d+[:.]?\d*', time_part): anchored at the start only, and
\* everything after the first digit is optional
TimeMatches(t) == t # "" /\ Head(t) \in Digits

\* team_keywords of the branch for year-bearing tables
TeamKeywordsYear ==
  <<"University", "Universidad", "College", "UPR", "P.R.", "Caribbean",
    "Interamerican", "Politecnica", "State", "Tech", "Institute", "Jr.",
    "Sr.", "III", "II">>

\* team_keywords of the branch for year-less tables
TeamKeywordsNoYear ==
  <<"University", "Universidad", "College", "UPR", "P.R.", "Caribbean",
    "Interamerican", "Politecnica">>

\* any(keyword in part for keyword in team_keywords)
HasKeyword(part, keywords) ==
  \E k \in 1..Len(keywords) : Contains(part, keywords[k])

RECURSIVE ScanNameTeam(_, _, _, _, _)
\* the loop over middle_parts that fills name_parts and team_parts
ScanNameTeam(middle, keywords, found, name, team) ==
  IF middle = <<>> THEN [found |-> found, name |-> name, team |-> team]
  ELSE IF ~found /\ HasKeyword(Head(middle), keywords)
       THEN ScanNameTeam(Tail(middle), keywords, TRUE, name,
                         Append(team, Head(middle)))
  ELSE IF found
       THEN ScanNameTeam(Tail(middle), keywords, TRUE, name,
                         Append(team, Head(middle)))
  ELSE ScanNameTeam(Tail(middle), keywords, FALSE,
                    Append(name, Head(middle)), team)

\* the split with the positional fallback after the first token
SplitNameTeamAtOne(middle, keywords) ==
  LET r == ScanNameTeam(middle, keywords, FALSE, <<>>, <<>>)
  IN  IF ~r.found /\ Len(middle) >= 2
      THEN [name |-> Join(Slice(middle, 0, 1)),
            team |-> Join(Slice(middle, 1, Len(middle)))]
      ELSE [name |-> Join(r.name), team |-> Join(r.team)]

\* the name/team split: keyword scan, then the positional fallback
SplitNameTeam(middle, keywords) ==
  LET r == ScanNameTeam(middle, keywords, FALSE, <<>>, <<>>)
  IN  IF ~r.found /\ Len(middle) >= 2
      THEN [name |-> Join(Slice(middle, 0, 2)),
            team |-> Join(Slice(middle, 2, Len(middle)))]
      ELSE [name |-> Join(r.name), team |-> Join(r.team)]

\* the loop that looks for the year among parts[1:-1]: year_index, or -1
YearIndex(parts) ==
  LET mid == Interior(parts)
      hits == {k \in 1..Len(mid) : IsYearToken(mid[k])}
  IN  IF hits = {} THEN -1
      ELSE CHOOSE k \in hits : \A h \in hits : k <= h

\* the value the variable i is left with by that loop (it reuses the name
\* of the outer loop's index)
YearLoopLast(parts) ==
  IF YearIndex(parts) > 0 THEN YearIndex(parts) - 1
  ELSE Len(Interior(parts)) - 1

RECURSIVE DropAt(_, _)
\* [part for i, part in enumerate(middle_parts) if i != k]
DropAt(xs, k) ==
  IF xs = <<>> THEN <<>>
  ELSE IF k = 0 THEN Tail(xs)
  ELSE <<Head(xs)>> \o DropAt(Tail(xs), k - 1)

\* the validity test with a name of one character let through
RowValidShortName(place, name, team, time_part) ==
  /\ IsDigitStr(place)
  /\ Len(name) > 0
  /\ Len(team) > 1
  /\ TimeMatches(time_part)

\* the validity test in front of a record
RowValid(place, name, team, time_part) ==
  /\ IsDigitStr(place)
  /\ Len(name) > 1
  /\ Len(team) > 1
  /\ TimeMatches(time_part)

MinPartsYear == 5

MinPartsNoYear == 4

\* the year branch with the token after the year removed instead of the year
RowYearDropsNext(parts, source_file, event_date) ==
  LET place == parts[1]
      yi == YearIndex(parts)
      year == IF yi > 0 THEN parts[yi + 1] ELSE ""
      time_part == parts[Len(parts)]
      middle0 == Interior(parts)
      middle == IF yi > 0 THEN DropAt(middle0, yi) ELSE middle0
      nt == SplitNameTeam(middle, TeamKeywordsYear)
  IN  IF /\ IsDigitStr(place)
         /\ Len(middle0) >= 2
         /\ RowValid(place, nt.name, nt.team, time_part)
      THEN <<[PL |-> place, NAME |-> nt.name, YEAR |-> year,
              TEAM |-> nt.team, TIME |-> time_part,
              SOURCE_FILE |-> source_file, EVENT_DATE |-> event_date]>>
      ELSE <<>>

\* the branch "Pattern: PL NAME YEAR TEAM TIME": the records it appends
RowYear(parts, source_file, event_date) ==
  LET place == parts[1]
      yi == YearIndex(parts)
      year == IF yi > 0 THEN parts[yi + 1] ELSE ""
      time_part == parts[Len(parts)]
      middle0 == Interior(parts)
      middle == IF yi > 0 THEN DropAt(middle0, yi - 1) ELSE middle0
      nt == SplitNameTeam(middle, TeamKeywordsYear)
  IN  IF /\ IsDigitStr(place)
         /\ Len(middle0) >= 2
         /\ RowValid(place, nt.name, nt.team, time_part)
      THEN <<[PL |-> place, NAME |-> nt.name, YEAR |-> year,
              TEAM |-> nt.team, TIME |-> time_part,
              SOURCE_FILE |-> source_file, EVENT_DATE |-> event_date]>>
      ELSE <<>>

\* the branch "Pattern: PL NAME TEAM TIME (without YEAR)"
RowNoYear(parts, source_file, event_date) ==
  LET place == parts[1]
      time_part == parts[Len(parts)]
      middle == Interior(parts)
      nt == SplitNameTeam(middle, TeamKeywordsNoYear)
  IN  IF /\ IsDigitStr(place)
         /\ Len(middle) >= 2
         /\ RowValid(place, nt.name, nt.team, time_part)
      THEN <<[PL |-> place, NAME |-> nt.name, YEAR |-> "",
              TEAM |-> nt.team, TIME |-> time_part,
              SOURCE_FILE |-> source_file, EVENT_DATE |-> event_date]>>
      ELSE <<>>

\* which branch a data line takes under a table with the given year flag
RowBranch(parts, hasYear) ==
  IF hasYear /\ Len(parts) >= MinPartsYear THEN "year"
  ELSE IF Len(parts) >= MinPartsNoYear THEN "noyear"
  ELSE "none"

(***************************************************************************)
(* The table locator                                                       *)
(***************************************************************************)
\* header_patterns, in list order: each is its keywords separated by \s+;
\* the last four are anchored with ^ and end in \s+
HeaderPatterns ==
  <<[anchored |-> FALSE, trail |-> FALSE,
     words |-> <<"PL", "NAME", "YEAR", "TEAM", "TIME">>],
    [anchored |-> FALSE, trail |-> FALSE,
     words |-> <<"PLACE", "NAME", "YEAR", "TEAM", "TIME">>],
    [anchored |-> FALSE, trail |-> FALSE,
     words |-> <<"POS", "NAME", "YEAR", "TEAM", "TIME">>],
    [anchored |-> FALSE, trail |-> FALSE,
     words |-> <<"RANK", "NAME", "YEAR", "TEAM", "TIME">>],
    [anchored |-> FALSE, trail |-> FALSE,
     words |-> <<"PL", "ATHLETE", "YEAR", "TEAM", "TIME">>],
    [anchored |-> FALSE, trail |-> FALSE,
     words |-> <<"PLACE", "ATHLETE", "YEAR", "TEAM", "TIME">>],
    [anchored |-> FALSE, trail |-> FALSE,
     words |-> <<"PL", "NAME", "TEAM", "TIME">>],
    [anchored |-> FALSE, trail |-> FALSE,
     words |-> <<"PLACE", "NAME", "TEAM", "TIME">>],
    [anchored |-> FALSE, trail |-> FALSE,
     words |-> <<"POS", "NAME", "TEAM", "TIME">>],
    [anchored |-> FALSE, trail |-> FALSE,
     words |-> <<"RANK", "NAME", "TEAM", "TIME">>],
    [anchored |-> FALSE, trail |-> FALSE,
     words |-> <<"PL", "ATHLETE", "TEAM", "TIME">>],
    [anchored |-> FALSE, trail |-> FALSE,
     words |-> <<"PLACE", "ATHLETE", "TEAM", "TIME">>],
    [anchored |-> TRUE, trail |-> TRUE, words |-> <<"PL">>],
    [anchored |-> TRUE, trail |-> TRUE, words |-> <<"PLACE">>],
    [anchored |-> TRUE, trail |-> TRUE, words |-> <<"POS">>],
    [anchored |-> TRUE, trail |-> TRUE, words |-> <<"RANK">>]>>

RECURSIVE SkipSpaces(_, _)
\* the position after the run of whitespace that starts at p
SkipSpaces(s, p) ==
  IF p <= Len(s) /\ IsSpace(Ch(s, p)) THEN SkipSpaces(s, p + 1) ELSE p

RECURSIVE MatchWordsAt(_, _, _, _)
\* words[1] \s+ words[2] \s+ ... matched at position p, with a closing \s+
\* when trail; every word starts with a non-space, so \s+ takes the whole run
MatchWordsAt(s, p, words, trail) ==
  IF words = <<>> THEN TRUE
  ELSE /\ StartsWithAt(s, p, Head(words))
       /\ LET q == p + Len(Head(words))
          IN  IF Len(words) = 1 /\ ~trail THEN TRUE
              ELSE /\ q <= Len(s)
                   /\ IsSpace(Ch(s, q))
                   /\ MatchWordsAt(s, SkipSpaces(s, q), Tail(words), trail)

RECURSIVE WordsLen(_)
WordsLen(words) ==
  IF words = <<>> THEN 0 ELSE Len(Head(words)) + WordsLen(Tail(words))

\* the length of the shortest string the pattern matches
PatternMinLen(pat) ==
  WordsLen(pat.words) + (Len(pat.words) - 1) + (IF pat.trail THEN 1 ELSE 0)

\* re.search(pattern, s): a match starts at 1 when anchored, else at any
\* position that leaves room for it
SearchPattern(s, pat) ==
  IF pat.anchored THEN MatchWordsAt(s, 1, pat.words, pat.trail)
  ELSE \E p \in 1..(Len(s) - PatternMinLen(pat) + 1) :
         MatchWordsAt(s, p, pat.words, pat.trail)

\* line_upper = line.upper().strip()
LineUpper(line) == Strip(Upper(line))

\* the patterns of the list that match the line, as indices
MatchingPatterns(line) ==
  LET line_upper == LineUpper(line)
  IN  {k \in 1..Len(HeaderPatterns) :
         SearchPattern(line_upper, HeaderPatterns[k])}

\* some pattern of the list matches: the line is a header
IsHeader(line) == MatchingPatterns(line) # {}

PeekEnd == 6

\* the peek taking a line of 3 tokens as well
PeekLineHasYearFrom3(check_line) ==
  LET check_parts == SplitWS(Strip(check_line))
  IN  /\ Len(check_parts) >= 3
      /\ \E k \in 2..(Len(check_parts) - 1) : IsYearToken(check_parts[k])

\* one line of the peek at lines[i+1:i+6]: at least 4 tokens and a year
\* token among check_parts[1:-1]
PeekLineHasYear(check_line) ==
  LET check_parts == SplitWS(Strip(check_line))
  IN  /\ Len(check_parts) >= 4
      /\ \E k \in 2..(Len(check_parts) - 1) : IsYearToken(check_parts[k])

\* has_year for the header at line i of ls
HasYearFlag(ls, i) ==
  \/ Contains(LineUpper(ls[i + 1]), "YEAR")
  \/ LET window == Slice(ls, i + 1, i + PeekEnd)
     IN  \E k \in 1..Len(window) : PeekLineHasYear(window[k])

BreakLen == 10

\* re.search(r'^[A-Z\s]+$', data_line) and len(data_line) > 10
IsSectionBreak(data_line) ==
  /\ data_line # ""
  /\ \A k \in 1..Len(data_line) :
       IsUpperLetter(Ch(data_line, k)) \/ IsSpace(Ch(data_line, k))
  /\ Len(data_line) > BreakLen

ScanSpan == 200

(***************************************************************************)
(* extract_event_date: the date patterns and re.findall                    *)
(***************************************************************************)
\* one element of a pattern: a character class or a literal character,
\* repeated between lo and hi times (hi = 0 stands for no upper limit)
El(c, lo, hi) == [c |-> c, lo |-> lo, hi |-> hi]

\* the tail shared by the two month patterns: " \d{1,2}-?\d{0,2},? \d{4}"
DayYearTail ==
  <<El(" ", 1, 1), El("digit", 1, 2), El("-", 0, 1), El("digit", 0, 2),
    El(",", 0, 1), El(" ", 1, 1), El("digit", 4, 4)>>

\* \d{1,2}/\d{1,2}/\d{4}
SlashDate ==
  <<El("digit", 1, 2), El("/", 1, 1), El("digit", 1, 2), El("/", 1, 1),
    El("digit", 4, 4)>>

\* the patterns tried in the opposite order
date_patterns_reversed ==
  << SlashDate,
     SlashDate,
     <<El("digit", 4, 4), El("-", 1, 1), El("digit", 1, 2), El("-", 1, 1),
       El("digit", 1, 2)>>,
     <<El("alpha", 3, 3)>> \o DayYearTail,
     <<El("alpha", 1, 0)>> \o DayYearTail >>

\* date_patterns, in the order of the list
date_patterns ==
  << <<El("alpha", 1, 0)>> \o DayYearTail,
     <<El("alpha", 3, 3)>> \o DayYearTail,
     <<El("digit", 4, 4), El("-", 1, 1), El("digit", 1, 2), El("-", 1, 1),
       El("digit", 1, 2)>>,
     SlashDate,
     SlashDate >>

\* the most repetitions of the element e that the text allows at position p
MaxRun(s, p, e) ==
  LET InClass(c) ==
        CASE e.c = "alpha" -> c \in LowerSet \/ c \in UpperSet
          [] e.c = "digit" -> c \in Digits
          [] OTHER -> c = e.c
      lim == IF e.hi = 0 THEN Len(s) - p + 1 ELSE Min(e.hi, Len(s) - p + 1)
      stops == {n \in 1..lim : ~InClass(Ch(s, p + n - 1))}
  IN  IF stops = {} THEN lim
      ELSE (CHOOSE n \in stops : \A m \in stops : n <= m) - 1

\* the position after the match of elems[k..] at position p, or 0 when
\* there is none: every element takes as many repetitions as leave a match
\* of the rest possible (greedy, with backtracking)
RECURSIVE MatchElems(_, _, _, _)
MatchElems(s, p, elems, k) ==
  IF k > Len(elems) THEN p
  ELSE LET e == elems[k]
           rest == [n \in e.lo..MaxRun(s, p, e) |->
                      MatchElems(s, p + n, elems, k + 1)]
           fit == {n \in DOMAIN rest : rest[n] # 0}
       IN  IF fit = {} THEN 0
           ELSE rest[CHOOSE n \in fit : \A m \in fit : n >= m]

\* re.findall(pattern, text)[0]: the match at the leftmost position where
\* the pattern matches; <<>> stands for an empty list of matches
FindFirst(s, elems) ==
  LET at == {p \in 1..Len(s) : MatchElems(s, p, elems, 1) # 0}
  IN  IF at = {} THEN <<>>
      ELSE LET p == CHOOSE q \in at : \A m \in at : q <= m
           IN  <<SubSeq(s, p, MatchElems(s, p, elems, 1) - 1)>>

\* extract_event_date(text) as a value: the first match of the first
\* pattern of the list that has one, stripped, or ""
extract_event_date(t) ==
  LET hit == {p \in 1..Len(date_patterns) : FindFirst(t, date_patterns[p]) # <<>>}
  IN  IF hit = {} THEN ""
      ELSE Strip(FindFirst(t, date_patterns[CHOOSE p \in hit :
                                              \A m \in hit : p <= m])[1])

(***************************************************************************)
(* extract_all_table_data as a state machine                               *)
(***************************************************************************)
VARIABLES
  text,         \* argument: the document text
  source_file,  \* argument
  event_date,   \* argument
  lines,        \* text.split('\n')
  it,           \* enumerate(lines): index of the next line it yields
  i,            \* the variable i (outer index, reused by the year loop)
  pat,          \* index of the header pattern that matched the line
  table_found,
  has_year,
  j,            \* index of the data line under the scan
  jend,         \* end of range(i + 1, min(i + 200, len(lines)))
  records,      \* the list that is returned
  origin,       \* history: for each record, the header and line behind it
  scanned,      \* history: the header and year flag of each scan started
  pc

\* the state of the callers of extract_all_table_data
VARIABLES
  dp,           \* extract_event_date: index of the pattern being tried
  run,          \* which call of extract_from_text on these arguments this is
  first         \* history: the records the first call returned

\* the state of a run of final_pdf_scraper.py
VARIABLES
  argc,             \* len(sys.argv)
  folder_exists,    \* self.folder_path.exists()
  pdf_files,        \* list(self.folder_path.glob("*.pdf"))
  library,          \* PDF_LIBRARY, or "none" when PDF_AVAILABLE is false
  doc,              \* number of the documents the loop has taken
  page,             \* number of the pages read from the document
  handle,           \* the file or document opened for the document
  extracted_data,
  total_records,
  results,          \* history: what extract_data_from_pdf returned, per document
  csv_file,         \* the data rows of extracted_data.csv, once written
  exit_status       \* the exit status of the process, once it has ended

doc_vars ==
  <<argc, folder_exists, pdf_files, library, doc, page, handle,
    extracted_data, total_records, results, csv_file, exit_status>>

\* the state of tfrrs_scraper.py: find_all_tables, extract_table_data and
\* save_combined_csv
VARIABLES
  soup,         \* the parsed page: its headings and tables in document order
  ti,           \* enumerate(tables): number of the tables taken
  table_name,
  headers,
  rows,
  tr,           \* number of the rows of the table taken
  table_data,   \* the dict, as its items in insertion order
  taken,        \* history: per table of the page, what extract_table_data returned
  csv_out,      \* the rows written to the combined file
  hpc

html_vars ==
  <<soup, ti, table_name, headers, rows, tr, table_data, taken, csv_out, hpc>>

\* the state of pdf_scraper.py: process_table
VARIABLES
  table,          \* argument: the rows of cells of a table
  field_indices,
  hx,             \* enumerate(headers): number of the header cells taken
  rx,             \* enumerate(table[1:], 1): number of the data rows taken
  data_rows,
  offered,        \* history: the rows given to extract_record_from_row
  fpc

table_vars == <<table, field_indices, hx, rx, data_rows, offered, fpc>>

\* the state of a command-line entry point besides its argument count
VARIABLES
  url,            \* run_scraper.py: the URL that main scrapes
  usage           \* the usage message has been printed

cli_vars == <<url, usage>>

\* the other programs
elsewhere == <<html_vars, table_vars, cli_vars>>

\* the variables that extract_all_table_data does not touch
outer == <<dp, run, first, doc_vars, elsewhere>>

vars ==
  <<text, source_file, event_date, lines, it, i, pat, table_found, has_year,
    j, jend, records, origin, scanned, pc, outer>>

\* the locals of extract_all_table_data before it has run
ScanIdle ==
  /\ lines = <<>>
  /\ it = 0
  /\ i = 0
  /\ pat = 0
  /\ table_found = FALSE
  /\ has_year = FALSE
  /\ j = 0
  /\ jend = 0
  /\ records = <<>>
  /\ origin = <<>>
  /\ scanned = <<>>

\* no call of extract_from_text has been made
TextIdle ==
  /\ dp = 0
  /\ run = 1
  /\ first = <<>>

\* main has not run
DocIdle ==
  /\ argc = 2
  /\ folder_exists = TRUE
  /\ pdf_files = <<>>
  /\ library = "pdfplumber"
  /\ doc = 0
  /\ page = 0
  /\ handle = "none"
  /\ extracted_data = <<>>
  /\ total_records = 0
  /\ results = <<>>
  /\ csv_file = <<>>
  /\ exit_status = -1

\* tfrrs_scraper.py has not run
HtmlIdle ==
  /\ soup = <<>>
  /\ ti = 0
  /\ table_name = ""
  /\ headers = <<>>
  /\ rows = <<>>
  /\ tr = 0
  /\ table_data = <<>>
  /\ taken = <<>>
  /\ csv_out = <<>>
  /\ hpc = "idle"

\* pdf_scraper.py has not run
TableIdle ==
  /\ table = <<>>
  /\ field_indices = <<>>
  /\ hx = 0
  /\ rx = 0
  /\ data_rows = <<>>
  /\ offered = <<>>
  /\ fpc = "idle"

\* no entry point has chosen a URL or printed its usage
CliIdle ==
  /\ url = ""
  /\ usage = FALSE

\* everything outside extract_all_table_data is at rest
OuterIdle == TextIdle /\ DocIdle /\ HtmlIdle /\ TableIdle /\ CliIdle

\* the header line of the scan in progress
hdr == it - 1

\* data_line = lines[j].strip()
DataLine == Strip(lines[j + 1])

\* parts = re.split(r'\s+', data_line)
Parts == SplitWS(DataLine)

InitWith(texts, dates, files) ==
  /\ text \in texts
  /\ source_file \in files
  /\ event_date \in dates
  /\ lines = <<>>
  /\ it = 0
  /\ i = 0
  /\ pat = 0
  /\ table_found = FALSE
  /\ has_year = FALSE
  /\ j = 0
  /\ jend = 0
  /\ records = <<>>
  /\ origin = <<>>
  /\ scanned = <<>>
  /\ pc = "start"

\* records = [] ; lines = text.split('\n')
SplitText ==
  /\ pc = "start"
  /\ lines' = SplitLines(text)
  /\ pc' = "line"
  /\ UNCHANGED <<text, source_file, event_date, it, i, pat, table_found,
                 has_year, j, jend, records, origin, scanned>>
  /\ UNCHANGED outer

\* an iteration of the outer loop on a line that no pattern matches
NextLine ==
  /\ pc = "line"
  /\ it < Len(lines)
  /\ ~IsHeader(lines[it + 1])
  /\ i' = it
  /\ it' = it + 1
  /\ UNCHANGED <<text, source_file, event_date, lines, pat, table_found,
                 has_year, j, jend, records, origin, scanned, pc>>
  /\ UNCHANGED outer

\* an iteration of the outer loop on a line that a pattern matches: the
\* first such pattern is taken, the year flag is set and the scan begins
FoundHeader ==
  /\ pc = "line"
  /\ it < Len(lines)
  /\ LET matching == MatchingPatterns(lines[it + 1])
     IN  /\ matching # {}
         /\ pat' = CHOOSE k \in matching : \A m \in matching : k <= m
  /\ table_found' = TRUE
  /\ has_year' = HasYearFlag(lines, it)
  /\ i' = it
  /\ it' = it + 1
  /\ j' = it + 1
  /\ jend' = Min(it + ScanSpan, Len(lines))
  /\ scanned' = Append(scanned, [hdr |-> it,
                                   has_year |-> HasYearFlag(lines, it)])
  /\ pc' = "scan"
  /\ UNCHANGED <<text, source_file, event_date, lines, records, origin>>
  /\ UNCHANGED outer

\* if not data_line: continue
ScanBlank ==
  /\ pc = "scan"
  /\ j < jend
  /\ DataLine = ""
  /\ j' = j + 1
  /\ UNCHANGED <<text, source_file, event_date, lines, it, i, pat,
                 table_found, has_year, jend, records, origin, scanned, pc>>
  /\ UNCHANGED outer

\* the section-break test skipping the line instead of ending the scan
ScanStopSkips ==
  /\ pc = "scan"
  /\ j < jend
  /\ DataLine # ""
  /\ IsSectionBreak(DataLine)
  /\ j' = j + 1
  /\ UNCHANGED <<text, source_file, event_date, lines, it, i, pat,
                 table_found, has_year, jend, records, origin, scanned, pc>>
  /\ UNCHANGED outer

\* the section-break test: break out of the scan
ScanStop ==
  /\ pc = "scan"
  /\ j < jend
  /\ DataLine # ""
  /\ IsSectionBreak(DataLine)
  /\ pc' = "leave"
  /\ UNCHANGED <<text, source_file, event_date, lines, it, i, pat,
                 table_found, has_year, j, jend, records, origin, scanned>>
  /\ UNCHANGED outer

\* a data line in the scan that is neither blank nor a section break
IsRow == pc = "scan" /\ j < jend /\ DataLine # "" /\ ~IsSectionBreak(DataLine)

\* the tail shared by the row actions: append what the branch produced
AppendRows(new) ==
  /\ records' = records \o new
  /\ origin' = origin \o
       [k \in 1..Len(new) |-> [hdr |-> hdr, line |-> j, has_year |-> has_year]]
  /\ j' = j + 1

\* if has_year and len(parts) >= 5
RowWithYear ==
  /\ IsRow
  /\ RowBranch(Parts, has_year) = "year"
  /\ AppendRows(RowYear(Parts, source_file, event_date))
  /\ i' = IF IsDigitStr(Parts[1]) THEN YearLoopLast(Parts) ELSE i
  /\ UNCHANGED <<text, source_file, event_date, lines, it, pat, table_found,
                 has_year, jend, scanned, pc>>
  /\ UNCHANGED outer

\* elif len(parts) >= 4
RowWithoutYear ==
  /\ IsRow
  /\ RowBranch(Parts, has_year) = "noyear"
  /\ AppendRows(RowNoYear(Parts, source_file, event_date))
  /\ UNCHANGED <<text, source_file, event_date, lines, it, i, pat,
                 table_found, has_year, jend, scanned, pc>>
  /\ UNCHANGED outer

\* a data line with too few tokens for either branch
RowSkipped ==
  /\ IsRow
  /\ RowBranch(Parts, has_year) = "none"
  /\ j' = j + 1
  /\ UNCHANGED <<text, source_file, event_date, lines, it, i, pat,
                 table_found, has_year, jend, records, origin, scanned, pc>>
  /\ UNCHANGED outer

\* the range of the scan is exhausted
ScanEnd ==
  /\ pc = "scan"
  /\ j >= jend
  /\ pc' = "leave"
  /\ UNCHANGED <<text, source_file, event_date, lines, it, i, pat,
                 table_found, has_year, j, jend, records, origin, scanned>>
  /\ UNCHANGED outer

\* the scan not followed by a break: the loop over the patterns goes on, and
\* a later pattern that matches the header line starts the scan again
LeaveTableNoBreak ==
  /\ pc = "leave"
  /\ LET later == {k \in MatchingPatterns(lines[hdr + 1]) : k > pat}
     IN  IF later = {}
         THEN /\ pc' = "line"
              /\ UNCHANGED <<pat, has_year, j, jend, scanned>>
         ELSE /\ pat' = CHOOSE k \in later : \A m \in later : k <= m
              /\ has_year' = HasYearFlag(lines, hdr)
              /\ j' = hdr + 1
              /\ jend' = Min(hdr + ScanSpan, Len(lines))
              /\ scanned' = Append(scanned,
                                   [hdr |-> hdr,
                                    has_year |-> HasYearFlag(lines, hdr)])
              /\ pc' = "scan"
  /\ UNCHANGED <<text, source_file, event_date, lines, it, i, table_found,
                 records, origin>>
  /\ UNCHANGED outer

\* the break after the scan: it leaves the loop over the patterns, and the
\* outer loop goes on with the next line
LeaveTable ==
  /\ pc = "leave"
  /\ pc' = "line"
  /\ UNCHANGED <<text, source_file, event_date, lines, it, i, pat,
                 table_found, has_year, j, jend, records, origin, scanned>>
  /\ UNCHANGED outer

\* the outer loop is exhausted: return records
Finish ==
  /\ pc = "line"
  /\ it >= Len(lines)
  /\ pc' = "done"
  /\ UNCHANGED <<text, source_file, event_date, lines, it, i, pat,
                 table_found, has_year, j, jend, records, origin, scanned>>
  /\ UNCHANGED outer

Next ==
  \/ SplitText
  \/ NextLine
  \/ FoundHeader
  \/ ScanBlank
  \/ ScanStop
  \/ RowWithYear
  \/ RowWithoutYear
  \/ RowSkipped
  \/ ScanEnd
  \/ LeaveTable
  \/ Finish

(***************************************************************************)
(* extract_from_text and extract_event_date                                *)
(***************************************************************************)
\* extract_from_text keeping the records of an earlier call in its list
ExtractFromTextKeeps ==
  /\ pc = "call"
  /\ lines' = SplitLines(text)
  /\ it' = 0
  /\ i' = 0
  /\ pat' = 0
  /\ table_found' = FALSE
  /\ has_year' = FALSE
  /\ j' = 0
  /\ jend' = 0
  /\ scanned' = <<>>
  /\ event_date' = ""
  /\ dp' = 1
  /\ pc' = "date"
  /\ UNCHANGED <<text, source_file, records, origin, run, first, doc_vars,
                 elsewhere>>

\* extract_from_text up to its call of extract_event_date: the locals are
\* those of this call (lines = text.split('\n'), records = [])
ExtractFromText ==
  /\ pc = "call"
  /\ lines' = SplitLines(text)
  /\ records' = <<>>
  /\ origin' = <<>>
  /\ it' = 0
  /\ i' = 0
  /\ pat' = 0
  /\ table_found' = FALSE
  /\ has_year' = FALSE
  /\ j' = 0
  /\ jend' = 0
  /\ scanned' = <<>>
  /\ event_date' = ""
  /\ dp' = 1
  /\ pc' = "date"
  /\ UNCHANGED <<text, source_file, run, first, doc_vars, elsewhere>>

\* matches = re.findall(pattern, text) for the pattern being tried
Matches == FindFirst(text, date_patterns[dp])

date_frame ==
  <<text, source_file, lines, it, i, pat, table_found, has_year, j, jend,
    records, origin, scanned, run, first, doc_vars, elsewhere>>

\* the pattern being tried matches nowhere: the loop goes to the next one
DateNoMatch ==
  /\ pc = "date"
  /\ dp <= Len(date_patterns)
  /\ Matches = <<>>
  /\ dp' = dp + 1
  /\ UNCHANGED <<event_date, pc, date_frame>>

\* the match found but not returned
DateMatchDropped ==
  /\ pc = "date"
  /\ dp <= Len(date_patterns)
  /\ Matches # <<>>
  /\ event_date' = ""
  /\ pc' = "start"
  /\ UNCHANGED <<dp, date_frame>>

\* if matches: return matches[0].strip(); the caller goes on to
\* extract_all_table_data with the value
DateMatch ==
  /\ pc = "date"
  /\ dp <= Len(date_patterns)
  /\ Matches # <<>>
  /\ event_date' = Strip(Matches[1])
  /\ pc' = "start"
  /\ UNCHANGED <<dp, date_frame>>

\* no pattern matched: return ""
DateNone ==
  /\ pc = "date"
  /\ dp > Len(date_patterns)
  /\ event_date' = ""
  /\ pc' = "start"
  /\ UNCHANGED <<dp, date_frame>>

\* extract_event_date alone
NextDate ==
  \/ DateNoMatch
  \/ DateMatch
  \/ DateNone

\* the caller calls extract_from_text once more with the same arguments
CallAgain ==
  /\ pc = "done"
  /\ run = 1
  /\ first' = records
  /\ run' = 2
  /\ pc' = "call"
  /\ UNCHANGED <<text, source_file, event_date, lines, it, i, pat,
                 table_found, has_year, j, jend, records, origin, scanned,
                 dp, doc_vars, elsewhere>>

\* extract_from_text, called twice
NextText ==
  \/ ExtractFromText
  \/ NextDate
  \/ Next
  \/ CallAgain

(***************************************************************************)
(* main, process_folder, extract_data_from_pdf and extract_text_from_pdf   *)
(***************************************************************************)
\* pdf_file of the loop of process_folder
PdfFile == pdf_files[doc]

scan_locals ==
  <<lines, it, i, pat, table_found, has_year, j, jend, records, origin,
    scanned>>

\* what the steps of a run leave alone unless they say otherwise
run_frame == <<argc, folder_exists, pdf_files, library, dp, run, first, elsewhere>>

\* if len(sys.argv) != 2: print the usage and sys.exit(1)
MainUsage ==
  /\ pc = "main"
  /\ argc # 2
  /\ usage' = TRUE
  /\ exit_status' = 1
  /\ pc' = "exit"
  /\ UNCHANGED <<text, source_file, event_date, scan_locals, doc, page,
                 handle, extracted_data, total_records, results, csv_file,
                 argc, folder_exists, pdf_files, library, dp, run, first,
                 html_vars, table_vars, url>>

\* scraper = FinalPDFScraper(folder_path); scraper.process_folder()
MainRun ==
  /\ pc = "main"
  /\ argc = 2
  /\ extracted_data' = <<>>
  /\ total_records' = 0
  /\ pc' = "folder"
  /\ UNCHANGED <<text, source_file, event_date, scan_locals, doc, page,
                 handle, results, csv_file, exit_status, run_frame>>

\* process_folder returns False (the folder does not exist, or holds no
\* PDF file); main prints the failure and ends
FolderAbsent ==
  /\ pc = "folder"
  /\ ~folder_exists \/ pdf_files = <<>>
  /\ exit_status' = 0
  /\ pc' = "exit"
  /\ UNCHANGED <<text, source_file, event_date, scan_locals, doc, page,
                 handle, extracted_data, total_records, results, csv_file,
                 run_frame>>

\* for pdf_file in pdf_files: extract_data_from_pdf(pdf_file), which calls
\* extract_text_from_pdf
NextDocument ==
  /\ pc \in {"folder", "docs"}
  /\ folder_exists
  /\ doc < Len(pdf_files)
  /\ doc' = doc + 1
  /\ page' = 0
  /\ handle' = "none"
  /\ text' = ""
  /\ pc' = "open"
  /\ UNCHANGED <<source_file, event_date, scan_locals, extracted_data,
                 total_records, results, csv_file, exit_status, run_frame>>

\* extract_text_from_pdf returns "" without opening anything: no library
\* is available, or opening the file raises
OpenFails ==
  /\ pc = "open"
  /\ library = "none" \/ PdfFile.fault = "open"
  /\ text' = ""
  /\ pc' = "read"
  /\ UNCHANGED <<source_file, event_date, scan_locals, doc, page, handle,
                 extracted_data, total_records, results, csv_file,
                 exit_status, run_frame>>

\* pdfplumber.open(pdf_path), open(pdf_path, 'rb') or fitz.open(pdf_path)
OpenPdf ==
  /\ pc = "open"
  /\ library # "none"
  /\ PdfFile.fault # "open"
  /\ handle' = "open"
  /\ text' = ""
  /\ page' = 0
  /\ pc' = "pages"
  /\ UNCHANGED <<source_file, event_date, scan_locals, doc, extracted_data,
                 total_records, results, csv_file, exit_status, run_frame>>

\* the text of a page is added, with a newline; pdfplumber skips a page
\* without text (the page that raises is the last page of a document with
\* the fault "page")
ExtractPage ==
  /\ pc = "pages"
  /\ page < Len(PdfFile.pages)
  /\ ~(PdfFile.fault = "page" /\ page + 1 = Len(PdfFile.pages))
  /\ text' = IF library = "pdfplumber" /\ PdfFile.pages[page + 1] = ""
             THEN text
             ELSE text \o PdfFile.pages[page + 1] \o "\n"
  /\ page' = page + 1
  /\ UNCHANGED <<source_file, event_date, scan_locals, doc, handle,
                 extracted_data, total_records, results, csv_file,
                 exit_status, pc, run_frame>>

\* the extraction of a page raises: the with statement closes the file on
\* the way to the handler, which returns ""; under PyMuPDF the handler is
\* reached with doc.close() not called, and the document stays open
\* unless the garbage collector has finalised it by then
PageRaises ==
  /\ pc = "pages"
  /\ page < Len(PdfFile.pages)
  /\ PdfFile.fault = "page" /\ page + 1 = Len(PdfFile.pages)
  /\ handle' \in IF library = "PyMuPDF" THEN {"open", "closed"} ELSE {"closed"}
  /\ text' = ""
  /\ pc' = "read"
  /\ UNCHANGED <<source_file, event_date, scan_locals, doc, page,
                 extracted_data, total_records, results, csv_file,
                 exit_status, run_frame>>

\* return text: leaving the with statement, or doc.close() before it
ReturnText ==
  /\ pc = "pages"
  /\ page = Len(PdfFile.pages)
  /\ handle' = "closed"
  /\ pc' = "read"
  /\ UNCHANGED <<text, source_file, event_date, scan_locals, doc, page,
                 extracted_data, total_records, results, csv_file,
                 exit_status, run_frame>>

\* if not text: return []; process_folder extends extracted_data by nothing
NoText ==
  /\ pc = "read"
  /\ text = ""
  /\ results' = Append(results, <<>>)
  /\ pc' = "docs"
  /\ UNCHANGED <<text, source_file, event_date, scan_locals, doc, page,
                 handle, extracted_data, total_records, csv_file,
                 exit_status, run_frame>>

\* pdf_data = self.extract_from_text(text, pdf_path.name)
CallExtract ==
  /\ pc = "read"
  /\ text # ""
  /\ source_file' = PdfFile.name
  /\ pc' = "call"
  /\ UNCHANGED <<text, event_date, scan_locals, doc, page, handle,
                 extracted_data, total_records, results, csv_file,
                 exit_status, run_frame>>

\* the locals of a call that has ended
DropLocals ==
  /\ lines' = <<>>
  /\ it' = 0
  /\ i' = 0
  /\ pat' = 0
  /\ table_found' = FALSE
  /\ has_year' = FALSE
  /\ j' = 0
  /\ jend' = 0
  /\ records' = <<>>
  /\ origin' = <<>>
  /\ scanned' = <<>>

\* the handler keeping what the call had gathered
ProcessingRaisesKeeps ==
  /\ pc \in {"call", "date", "start", "line", "scan", "leave", "done"}
  /\ PdfFile.fault = "parse"
  /\ extracted_data' = extracted_data \o records
  /\ total_records' = total_records + Len(records)
  /\ results' = Append(results, <<>>)
  /\ DropLocals
  /\ pc' = "docs"
  /\ UNCHANGED <<text, source_file, event_date, doc, page, handle, csv_file,
                 exit_status, run_frame>>

\* extract_from_text raises, somewhere before it returns, on a document
\* with the fault "parse": its locals are gone, the handler of
\* extract_data_from_pdf returns [], and process_folder extends
\* extracted_data by nothing
ProcessingRaises ==
  /\ pc \in {"call", "date", "start", "line", "scan", "leave", "done"}
  /\ PdfFile.fault = "parse"
  /\ results' = Append(results, <<>>)
  /\ DropLocals
  /\ pc' = "docs"
  /\ UNCHANGED <<text, source_file, event_date, doc, page, handle,
                 extracted_data, total_records, csv_file, exit_status,
                 run_frame>>

\* extract_from_text returns: self.extracted_data.extend(pdf_data) and
\* self.total_records += len(pdf_data)
ReturnRecords ==
  /\ pc = "done"
  /\ PdfFile.fault # "parse"
  /\ extracted_data' = extracted_data \o records
  /\ total_records' = total_records + Len(records)
  /\ results' = Append(results, records)
  /\ pc' = "docs"
  /\ UNCHANGED <<text, source_file, event_date, scan_locals, doc, page,
                 handle, csv_file, exit_status, run_frame>>

\* the loop is exhausted: process_folder returns True, main goes on to
\* display_summary and save_to_csv
FolderDone ==
  /\ pc = "docs"
  /\ doc = Len(pdf_files)
  /\ pc' = "save"
  /\ UNCHANGED <<text, source_file, event_date, scan_locals, doc, page,
                 handle, extracted_data, total_records, results, csv_file,
                 exit_status, run_frame>>

\* save_to_csv returns False for want of data; main prints the failure
\* and ends
SaveNoData ==
  /\ pc = "save"
  /\ extracted_data = <<>>
  /\ exit_status' = 0
  /\ pc' = "exit"
  /\ UNCHANGED <<text, source_file, event_date, scan_locals, doc, page,
                 handle, extracted_data, total_records, results, csv_file,
                 run_frame>>

\* save_to_csv writes the header (fieldnames) and, with DictWriter, a row
\* for every record, and returns True; main ends
SaveCsv ==
  /\ pc = "save"
  /\ extracted_data # <<>>
  /\ csv_file' =
       LET fieldnames ==
             <<"PL", "NAME", "YEAR", "TEAM", "TIME", "SOURCE_FILE",
               "EVENT_DATE">>
           row(r) ==
             <<r.PL, r.NAME, r.YEAR, r.TEAM, r.TIME, r.SOURCE_FILE,
               r.EVENT_DATE>>
       IN  <<fieldnames>> \o
             [k \in 1..Len(extracted_data) |-> row(extracted_data[k])]
  /\ exit_status' = 0
  /\ pc' = "exit"
  /\ UNCHANGED <<text, source_file, event_date, scan_locals, doc, page,
                 handle, extracted_data, total_records, results, run_frame>>

\* opening or writing the file raises: save_to_csv returns False; main
\* prints the failure and ends
SaveFails ==
  /\ pc = "save"
  /\ extracted_data # <<>>
  /\ exit_status' = 0
  /\ pc' = "exit"
  /\ UNCHANGED <<text, source_file, event_date, scan_locals, doc, page,
                 handle, extracted_data, total_records, results, csv_file,
                 run_frame>>

\* a run of final_pdf_scraper.py
NextMain ==
  \/ MainUsage
  \/ MainRun
  \/ FolderAbsent
  \/ NextDocument
  \/ OpenFails
  \/ OpenPdf
  \/ ExtractPage
  \/ PageRaises
  \/ ReturnText
  \/ NoText
  \/ CallExtract
  \/ ExtractFromText
  \/ NextDate
  \/ Next
  \/ ProcessingRaises
  \/ ReturnRecords
  \/ FolderDone
  \/ SaveNoData
  \/ SaveCsv
  \/ SaveFails

(***************************************************************************)
(* tfrrs_scraper.py: find_all_tables, extract_table_data and               *)
(* save_combined_csv, as main calls them on the fetched page.  A node of   *)
(* the page is a heading (kind "h", with its text) or a table (kind        *)
(* "table", with its caption if any and its rows of cell texts).           *)
(***************************************************************************)
\* s.lower()
Lower(s) ==
  LET low(c) ==
        IF c \in UpperSet
        THEN Ch(LowerLetters, CHOOSE k \in 1..26 : Ch(UpperLetters, k) = c)
        ELSE c
      RECURSIVE cat(_)
      cat(k) == IF k > Len(s) THEN "" ELSE low(Ch(s, k)) \o cat(k + 1)
  IN  cat(1)

\* s.replace(' ', '_')
Underscored(s) ==
  LET RECURSIVE cat(_)
      cat(k) == IF k > Len(s) THEN ""
                ELSE (IF Ch(s, k) = " " THEN "_" ELSE Ch(s, k)) \o cat(k + 1)
  IN  cat(1)

\* soup.find_all('table'): the places of the tables in the page
TablePlaces == {n \in 1..Len(soup) : soup[n].kind = "table"}

\* the table of the iteration in progress
Table == soup[Nth(TablePlaces, ti + 1)]

\* str(n) for a number below 100
Str(n) ==
  IF n < 10 THEN Ch("0123456789", n + 1)
  ELSE Ch("0123456789", (n \div 10) + 1) \o Ch("0123456789", (n % 10) + 1)

\* the name find_all_tables gives the table of index n: f"table_{n+1}",
\* replaced by the caption if there is one, replaced by the nearest
\* preceding heading if there is one and it contains a keyword
TableName(n) ==
  LET at == Nth(TablePlaces, n + 1)
      t == soup[at]
      before == {m \in 1..(at - 1) : soup[m].kind = "h"}
      named == IF t.caption # <<>>
               THEN Underscored(Lower(Strip(t.caption[1])))
               ELSE "table_" \o Str(n + 1)
  IN  IF before = {} THEN named
      ELSE LET heading_text ==
                 Lower(Strip(soup[CHOOSE m \in before :
                                    \A q \in before : q <= m].text))
           IN  IF \E kw \in {"result", "finish", "time", "place", "rank"} :
                    Contains(heading_text, kw)
               THEN Underscored(heading_text)
               ELSE named

\* re.sub(r'\s+', ' ', cell.get_text(strip=True))
CellText(cell) == Join(SplitWS(Strip(cell)))

\* the header cells of the first row: get_text(strip=True), non-empty only
HeaderTexts(t) ==
  IF t.trs = <<>> THEN <<>>
  ELSE LET RECURSIVE pick(_)
           pick(cs) == IF cs = <<>> THEN <<>>
                       ELSE (IF Strip(Head(cs)) # "" THEN <<Strip(Head(cs))>>
                             ELSE <<>>) \o pick(Tail(cs))
       IN  pick(t.trs[1])

\* row_data of the row in progress
RowData == [k \in 1..Len(Table.trs[tr + 1]) |-> CellText(Table.trs[tr + 1][k])]

\* table_data[name] = data: a new key goes last, a known key keeps its place
Put(d, name, data) ==
  IF \E k \in 1..Len(d) : d[k].name = name
  THEN [k \in 1..Len(d) |->
          IF d[k].name = name THEN [name |-> name, data |-> data] ELSE d[k]]
  ELSE Append(d, [name |-> name, data |-> data])

\* what the steps of tfrrs_scraper.py leave alone
pdf_side ==
  <<text, source_file, event_date, lines, it, i, pat, table_found, has_year,
    j, jend, records, origin, scanned, pc, dp, run, first, doc_vars,
    table_vars, cli_vars>>

\* an iteration of find_all_tables up to the call of extract_table_data,
\* and that call up to its loop over the rows
FindTable ==
  /\ hpc = "tables"
  /\ ti < Cardinality(TablePlaces)
  /\ table_name' = TableName(ti)
  /\ headers' = HeaderTexts(Table)
  /\ rows' = <<>>
  /\ tr' = 1
  /\ hpc' = "rows"
  /\ UNCHANGED <<soup, ti, table_data, taken, csv_out, pdf_side>>

\* a row kept without its empty cells
KeepRowNonEmptyCells ==
  /\ hpc = "rows"
  /\ tr < Len(Table.trs)
  /\ \E k \in 1..Len(RowData) : Strip(RowData[k]) # ""
  /\ rows' = Append(rows, SelectSeq(RowData, LAMBDA c : c # ""))
  /\ tr' = tr + 1
  /\ UNCHANGED <<soup, ti, table_name, headers, table_data, taken, csv_out,
                 hpc, pdf_side>>

\* if any(cell.strip() for cell in row_data): rows.append(row_data)
KeepRow ==
  /\ hpc = "rows"
  /\ tr < Len(Table.trs)
  /\ \E k \in 1..Len(RowData) : Strip(RowData[k]) # ""
  /\ rows' = Append(rows, RowData)
  /\ tr' = tr + 1
  /\ UNCHANGED <<soup, ti, table_name, headers, table_data, taken, csv_out,
                 hpc, pdf_side>>

\* a row without data is not added
DropRow ==
  /\ hpc = "rows"
  /\ tr < Len(Table.trs)
  /\ \A k \in 1..Len(RowData) : Strip(RowData[k]) = ""
  /\ tr' = tr + 1
  /\ UNCHANGED <<soup, ti, table_name, headers, rows, table_data, taken,
                 csv_out, hpc, pdf_side>>

\* extract_table_data returns; if data and data['rows']:
\* table_data[table_name] = data
StoreTable ==
  /\ hpc = "rows"
  /\ tr >= Len(Table.trs)
  /\ taken' = Append(taken, [headers |-> headers, rows |-> rows])
  /\ table_data' = IF rows # <<>>
                   THEN Put(table_data, table_name,
                            [headers |-> headers, rows |-> rows])
                   ELSE table_data
  /\ ti' = ti + 1
  /\ hpc' = "tables"
  /\ UNCHANGED <<soup, table_name, headers, rows, tr, csv_out, pdf_side>>

\* find_all_tables returns table_data; main ends if it is empty
ReturnTables ==
  /\ hpc = "tables"
  /\ ti = Cardinality(TablePlaces)
  /\ hpc' = IF table_data = <<>> THEN "end" ELSE "save"
  /\ UNCHANGED <<soup, ti, table_name, headers, rows, tr, table_data, taken,
                 csv_out, pdf_side>>

\* [table_name, row_num] + row + [''] * (20 - len(row)), as csv.writer
\* writes it
CombinedRow(name, row_num, row) ==
  <<name, Str(row_num)>> \o row \o [k \in 1..(20 - Len(row)) |-> ""]

\* save_combined_csv: the header, then the rows of every table, numbered
\* from 1 in each
SaveCombinedCsv ==
  /\ hpc = "save"
  /\ csv_out' =
       LET of(e) == [n \in 1..Len(e.data.rows) |->
                      CombinedRow(e.name, n, e.data.rows[n])]
           RECURSIVE all(_)
           all(k) == IF k > Len(table_data) THEN <<>>
                     ELSE of(table_data[k]) \o all(k + 1)
       IN  << <<"Table_Name", "Row_Number">> \o
                [k \in 1..20 |-> "Column_" \o Str(k - 1)] >>
             \o all(1)
  /\ hpc' = "end"
  /\ UNCHANGED <<soup, ti, table_name, headers, rows, tr, table_data, taken,
                 pdf_side>>

\* tfrrs_scraper.py from the fetched page on
NextHtml ==
  \/ FindTable
  \/ KeepRow
  \/ DropRow
  \/ StoreTable
  \/ ReturnTables
  \/ SaveCombinedCsv

(***************************************************************************)
(* pdf_scraper.py: process_table with identify_field_columns and           *)
(* extract_record_from_row.  A table is a sequence of rows of cell texts;  *)
(* a cell that is None or '' is the empty string (the code treats the two  *)
(* alike).  Column indices count from 0 as in the code.                    *)
(***************************************************************************)
\* a field of field_indices without a column
None == -1

\* the branches of the elif chain of identify_field_columns, in its order
field_keywords ==
  << [field |-> "PL",
      keywords |-> <<"PL", "PLACE", "POS", "POSITION", "RANK", "RANKING">>],
     [field |-> "NAME",
      keywords |-> <<"NAME", "ATHLETE", "RUNNER", "COMPETITOR">>],
     [field |-> "TEAM",
      keywords |-> <<"TEAM", "SCHOOL", "CLUB", "UNIVERSITY", "COLLEGE">>],
     [field |-> "TIME",
      keywords |-> <<"TIME", "RESULT", "FINISH", "MARK", "PERFORMANCE">>],
     [field |-> "EVENT_DATE",
      keywords |-> <<"DATE", "EVENT DATE", "MEET DATE", "COMPETITION DATE">>] >>

\* headers = [str(cell).strip() if cell else "" for cell in table[0]]
table_headers == [k \in 1..Len(table[1]) |-> Strip(table[1][k])]

\* the first branch of the elif chain whose test the header passes, 0 if
\* none does
Branch(header) ==
  LET header_upper == Upper(header)
      passed == {b \in 1..Len(field_keywords) :
                   \E k \in 1..Len(field_keywords[b].keywords) :
                     Contains(header_upper, field_keywords[b].keywords[k])}
  IN  IF passed = {} THEN 0 ELSE Nth(passed, 1)

\* any(field_indices.values()): None and 0 are both false
AnyIndex(fi) == \E f \in DOMAIN fi : fi[f] # None /\ fi[f] # 0

\* the record of extract_record_from_row before its last test
RecordOfRow(row, fi, file) ==
  LET value(f) == IF fi[f] # None /\ fi[f] < Len(row)
                  THEN Strip(row[fi[f] + 1])
                  ELSE ""
  IN  [PL |-> value("PL"), NAME |-> value("NAME"), TEAM |-> value("TEAM"),
       TIME |-> value("TIME"), SOURCE_FILE |-> file,
       EVENT_DATE |-> value("EVENT_DATE")]

\* extract_record_from_row: the record in a sequence, the empty sequence
\* for None
extract_record_from_row(row, fi, file) ==
  LET record == RecordOfRow(row, fi, file)
  IN  IF record.PL # "" \/ record.NAME # "" \/ record.TEAM # ""
         \/ record.TIME # ""
      THEN <<record>>
      ELSE <<>>

\* what the steps of process_table leave alone
table_frame ==
  <<text, source_file, event_date, lines, it, i, pat, table_found, has_year,
    j, jend, records, origin, scanned, pc, dp, run, first, doc_vars,
    html_vars, cli_vars>>

\* if not table or len(table) < 2: return []
TableTooShort ==
  /\ fpc = "table"
  /\ Len(table) < 2
  /\ data_rows' = <<>>
  /\ fpc' = "return"
  /\ UNCHANGED <<table, field_indices, hx, rx, offered, table_frame>>

\* the headers are taken and identify_field_columns is entered
IdentifyFieldColumns ==
  /\ fpc = "table"
  /\ Len(table) >= 2
  /\ field_indices' = [f \in {"PL", "NAME", "TEAM", "TIME", "EVENT_DATE"} |->
                         None]
  /\ hx' = 0
  /\ fpc' = "headers"
  /\ UNCHANGED <<table, rx, data_rows, offered, table_frame>>

\* an iteration of the loop of identify_field_columns
HeaderTaken ==
  /\ fpc = "headers"
  /\ hx < Len(table_headers)
  /\ LET b == Branch(table_headers[hx + 1])
     IN  field_indices' =
           IF b = 0 THEN field_indices
           ELSE [field_indices EXCEPT ![field_keywords[b].field] = hx]
  /\ hx' = hx + 1
  /\ UNCHANGED <<table, rx, data_rows, offered, fpc, table_frame>>

\* if not any(field_indices.values()): return []
NoTargetFields ==
  /\ fpc = "headers"
  /\ hx = Len(table_headers)
  /\ ~AnyIndex(field_indices)
  /\ data_rows' = <<>>
  /\ fpc' = "return"
  /\ UNCHANGED <<table, field_indices, hx, rx, offered, table_frame>>

\* the loop over table[1:] is entered
FieldsIdentified ==
  /\ fpc = "headers"
  /\ hx = Len(table_headers)
  /\ AnyIndex(field_indices)
  /\ data_rows' = <<>>
  /\ rx' = 1
  /\ fpc' = "rows"
  /\ UNCHANGED <<table, field_indices, hx, offered, table_frame>>

\* if not row or len(row) < len(headers): continue
ShortRow ==
  /\ fpc = "rows"
  /\ rx < Len(table)
  /\ Len(table[rx + 1]) = 0 \/ Len(table[rx + 1]) < Len(table_headers)
  /\ rx' = rx + 1
  /\ UNCHANGED <<table, field_indices, hx, data_rows, offered, fpc,
                 table_frame>>

\* the row goes to extract_record_from_row; a record is appended
RecordFromRow ==
  /\ fpc = "rows"
  /\ rx < Len(table)
  /\ Len(table[rx + 1]) # 0 /\ Len(table[rx + 1]) >= Len(table_headers)
  /\ offered' = Append(offered, rx)
  /\ data_rows' =
       data_rows \o extract_record_from_row(table[rx + 1], field_indices,
                                            source_file)
  /\ rx' = rx + 1
  /\ UNCHANGED <<table, field_indices, hx, fpc, table_frame>>

\* return data_rows
ReturnDataRows ==
  /\ fpc = "rows"
  /\ rx = Len(table)
  /\ fpc' = "return"
  /\ UNCHANGED <<table, field_indices, hx, rx, data_rows, offered,
                 table_frame>>

\* process_table
NextTable ==
  \/ TableTooShort
  \/ IdentifyFieldColumns
  \/ HeaderTaken
  \/ NoTargetFields
  \/ FieldsIdentified
  \/ ShortRow
  \/ RecordFromRow
  \/ ReturnDataRows

(***************************************************************************)
(* Inputs                                                                  *)
(***************************************************************************)
\* header lines: with YEAR, in mixed case behind whitespace, and a short
\* one that only an anchored pattern matches
HeaderLines ==
  {"PL NAME YEAR TEAM TIME", " Place Athlete Team Time", "Rank Name"}

\* lines that follow a header: rows with and without a year token, with
\* keywords of either list or of none, one-letter names, bad places and
\* times, short rows, blank lines and section breaks
RowLines ==
  {"  1  John  Smith\tUPR  9.8 ",
   "2 Ana Cruz SR Caribbean University 12.34",
   "3 J UPR 10.1",
   "4 John Paul Smith State 9.9",
   "5 SR UPR East 11",
   "6th Bo Li College 9",
   "7 Kim Lee 2024 College 1:02.5",
   "8 Al Bo 9.1",
   "9 Cy Day UPR DNF",
   "10 Ed 2019 so P.R. 9s",
   "",
   "FINAL RESULTS",
   "HEAT TWO"}

MaxRows == 2

SourceFiles == {"meet.pdf"}

\* event_date as extract_from_text passes it: found in the text, or empty
EventDates == {"", "May 3, 2024"}

\* a header followed by up to MaxRows lines
RowTexts ==
  {JoinLines(<<h>> \o rs) :
     h \in HeaderLines, rs \in UNION {[1..n -> RowLines] : n \in 0..MaxRows}}

Init == InitWith(RowTexts, {""}, SourceFiles) /\ OuterIdle

Spec == Init /\ [][Next]_vars

\* lines of texts with several tables: headers in upper case (which are
\* section breaks too), in mixed case and short (which are not), rows, a
\* blank line and a section break
TableLines ==
  {"PL NAME YEAR TEAM TIME", "Rank Name", "Pos Name Year Team Time",
   "1 John Smith UPR 9.8", "6th Bo Li College 9", "", "FINAL RESULTS"}

MaxLines == 3

\* up to MaxLines lines, any of them a header
TableTexts ==
  {JoinLines(ls) : ls \in UNION {[1..n -> TableLines] : n \in 1..MaxLines}}

InitTables == InitWith(TableTexts, EventDates, SourceFiles) /\ OuterIdle

SpecTables == InitTables /\ [][Next]_vars

PeekHeaders == {"PL NAME TEAM TIME", "PL NAME YEAR TEAM TIME"}

\* lines put between the header and the probe
PeekFillers == {"", "1 John Smith UPR 9.8"}

\* lines with a year token inside, at the end, and inside a line of three
\* tokens, and a section break
PeekProbes ==
  {"2 Ana Cruz SR Caribbean University 12.34",
   "7 Kim Lee 2024 College 1:02.5",
   "3 2024 Lee 9.8",
   "1 SR 9",
   "5 Bo Li UPR 2024",
   "FINAL RESULTS"}

PeekTails == {<<>>, <<"HEAT TWO">>}

MaxGap == 5

\* a header, up to MaxGap fillers, a probe, a tail
PeekTexts ==
  {JoinLines(<<h>> \o [k \in 1..a |-> f] \o <<probe>> \o tail) :
     h \in PeekHeaders, f \in PeekFillers, a \in 0..MaxGap,
     probe \in PeekProbes, tail \in PeekTails}

InitPeek == InitWith(PeekTexts, EventDates, SourceFiles) /\ OuterIdle

SpecPeek == InitPeek /\ [][Next]_vars

MaxFrags == 2

\* texts of up to MaxFrags pieces, on one line or on a line each: a date of
\* each pattern, a word with a number that is no date by itself, a word
DateTexts ==
  LET fragments ==
        {"May 3, 2024", "Sept 5-6 2023", "2024-05-03", "5/3/2024", "Meet 12",
         "x"}
  IN  UNION {{Join(fs), JoinLines(fs)} :
               fs \in UNION {[1..n -> fragments] : n \in 1..MaxFrags}}

\* extract_event_date called on a text
InitDate ==
  /\ text \in DateTexts
  /\ source_file \in SourceFiles
  /\ event_date = ""
  /\ ScanIdle
  /\ pc = "date"
  /\ dp = 1
  /\ run = 1
  /\ first = <<>>
  /\ DocIdle
  /\ HtmlIdle
  /\ TableIdle
  /\ CliIdle

SpecDate == InitDate /\ [][NextDate]_vars

\* document texts: a date line before the table, one after it, or none; a
\* header with YEAR or without; under it rows of either branch, a short
\* row, a blank line, a section break and a row behind it
DocTexts ==
  LET dates == {<< <<>>, <<>> >>,
                << <<"May 3, 2024">>, <<>> >>,
                << <<>>, <<"2024-05-03 or May 4, 2024">> >>}
      heads == {"PL NAME YEAR TEAM TIME", "Rank Name"}
      tables ==
        {<<>>,
         <<"1 John Smith UPR 9.8">>,
         <<"7 Kim Lee 2024 College 1:02.5",
           "2 Ana Cruz SR Caribbean University 12.34">>,
         <<"1 John Smith UPR 9.8", "", "3 J", "8 Al Bo State 9.1">>,
         <<"7 Kim Lee 2024 College 1:02.5", "FINAL RESULTS",
           "1 John Smith UPR 9.8">>}
  IN  {JoinLines(d[1] \o <<h>> \o rs \o d[2]) :
         d \in dates, h \in heads, rs \in tables}

\* pdf_path.name
DocNames == {"meet.pdf", "Day 1.pdf"}

\* extract_from_text called on a text and a name
InitText ==
  /\ text \in DocTexts
  /\ source_file \in DocNames
  /\ event_date = ""
  /\ ScanIdle
  /\ pc = "call"
  /\ OuterIdle

SpecText == InitText /\ [][NextText]_vars

\* PDF_LIBRARY after the imports, "none" when every import failed
Libraries == {"pdfplumber", "PyPDF2", "pypdf", "PyMuPDF", "none"}

\* documents: a result sheet of two pages (a table with years, then a
\* section break and a table without), a sheet of one page, a document of
\* a page without text, and sheets that cannot be opened, whose last page
\* cannot be extracted, and whose text makes the extraction raise
Documents ==
  LET sheet ==
        <<"May 3, 2024\nPL NAME YEAR TEAM TIME\n7 Kim Lee 2024 College 1:02.5\n\n3 J",
          "FINAL RESULTS\nRank Name\n1 John Smith UPR 9.8">>
  IN  {[pages |-> sheet, fault |-> "none"],
       [pages |-> <<"Rank Name\n1 John Smith UPR 9.8">>, fault |-> "none"],
       [pages |-> <<"">>, fault |-> "none"],
       [pages |-> sheet, fault |-> "open"],
       [pages |-> sheet, fault |-> "page"],
       [pages |-> sheet, fault |-> "parse"]}

MaxDocs == 2

\* the folder's PDF files: up to MaxDocs documents, named in the order of
\* the glob
Folders ==
  LET names == <<"a.pdf", "b.pdf", "c.pdf", "d.pdf">>
  IN  {[k \in 1..n |-> [name |-> names[k], pages |-> ds[k].pages,
                        fault |-> ds[k].fault]] :
         n \in 0..MaxDocs, ds \in [1..MaxDocs -> Documents]}

\* the process has started: the command line, the folder and the library
InitMain ==
  /\ text = ""
  /\ source_file = ""
  /\ event_date = ""
  /\ ScanIdle
  /\ TextIdle
  /\ HtmlIdle
  /\ TableIdle
  /\ CliIdle
  /\ pc = "main"
  /\ doc = 0
  /\ page = 0
  /\ handle = "none"
  /\ extracted_data = <<>>
  /\ total_records = 0
  /\ results = <<>>
  /\ csv_file = <<>>
  /\ exit_status = -1
  /\ \/ /\ argc \in {1, 3}
        /\ folder_exists = TRUE
        /\ pdf_files = <<>>
        /\ library = "pdfplumber"
     \/ /\ argc = 2
        /\ folder_exists = FALSE
        /\ pdf_files = <<>>
        /\ library = "pdfplumber"
     \/ /\ argc = 2
        /\ folder_exists = TRUE
        /\ pdf_files \in Folders
        /\ library \in Libraries

SpecMain == InitMain /\ [][NextMain]_vars

MaxCells == 21

\* a table with what stands before it: a heading with a keyword or
\* without, a caption or none.  The rows of cells are as they stand in the
\* page: a header row, rows with data (with an empty cell, with blanks
\* around and inside a cell), rows without data, and rows of 20 and of
\* MaxCells cells
Blocks ==
  LET plain == << <<"PL", " ", "NAME ", "TIME">>,
                  <<"1", "", " Ann  Lee ", "9.8">>,
                  <<"", " ", "">>,
                  <<"2", "Bo", "", "10.1">> >>
      short == << <<"Team", "Pts">>, <<"UPR", "12">> >>
      wide == << <<"A">>, [k \in 1..20 |-> "c"], [k \in 1..MaxCells |-> "w"] >>
      h(t) == [kind |-> "h", text |-> t, caption |-> <<>>, trs |-> <<>>]
      tab(c, rs) == [kind |-> "table", text |-> "", caption |-> c, trs |-> rs]
  IN  {<<tab(<<>>, plain)>>,
       <<h(" Final Results"), tab(<<>>, plain)>>,
       <<h("Final results"), tab(<<"Heat 1">>, short)>>,
       <<h("News"), tab(<<"Heat 1">>, short)>>,
       <<tab(<<" Heat 1 ">>, wide)>>,
       <<tab(<<>>, << <<"Notes">>, <<" ", "">> >>)>>,
       <<tab(<<>>, <<>>)>>}

MaxTables == 2

\* pages of up to MaxTables tables
Pages ==
  {Flatten(bs) : bs \in UNION {[1..n -> Blocks] : n \in 0..MaxTables}}

\* the page has been fetched and parsed
InitHtml ==
  /\ InitWith({""}, {""}, {""})
  /\ TextIdle
  /\ DocIdle
  /\ TableIdle
  /\ CliIdle
  /\ soup \in Pages
  /\ ti = 0
  /\ table_name = ""
  /\ headers = <<>>
  /\ rows = <<>>
  /\ tr = 0
  /\ table_data = <<>>
  /\ taken = <<>>
  /\ csv_out = <<>>
  /\ hpc = "tables"

SpecHtml == InitHtml /\ [][NextHtml]_vars

(***************************************************************************)
(* run_scraper.py: main chooses the URL, fetches the page and goes on as   *)
(* tfrrs_scraper.py does.  What the network returns for a URL is any page  *)
(* or a failure.                                                           *)
(***************************************************************************)
default_url ==
  "https://www.tfrrs.org/results/82468/5018295/FRIDAY_KNIGHT_LIGHTS_INDOOR_MEET/Mens-200-Meters"

\* the URLs given on the command line
GivenUrls == {"https://www.tfrrs.org/results/1/2/MEET/Mens-100-Meters"}

\* what the steps of run_scraper.py's main before find_all_tables leave
\* alone
run_side ==
  <<ti, table_name, headers, rows, tr, table_data, taken, csv_out, argc,
    folder_exists, pdf_files, library, doc, page, handle, extracted_data,
    total_records, results, csv_file, text, source_file, event_date, lines,
    it, i, pat, table_found, has_year, j, jend, records, origin, scanned, pc,
    dp, run, first, table_vars, usage>>

\* url = sys.argv[1], an argument being given
UrlGiven ==
  /\ hpc = "main"
  /\ argc > 1
  /\ url' \in GivenUrls
  /\ hpc' = "fetch"
  /\ UNCHANGED <<soup, exit_status, run_side>>

\* mutant of UrlDefault: without an argument main prints a usage and stops
UrlDefaultRefused ==
  /\ hpc = "main"
  /\ argc <= 1
  /\ usage' = TRUE
  /\ exit_status' = 1
  /\ hpc' = "exit"
  /\ UNCHANGED <<soup, url, ti, table_name, headers, rows, tr, table_data,
                 taken, csv_out, argc, folder_exists, pdf_files, library, doc,
                 page, handle, extracted_data, total_records, results,
                 csv_file, text, source_file, event_date, lines, it, i, pat,
                 table_found, has_year, j, jend, records, origin, scanned, pc,
                 dp, run, first, table_vars>>

\* url = default_url, no argument being given
UrlDefault ==
  /\ hpc = "main"
  /\ argc <= 1
  /\ url' = default_url
  /\ hpc' = "fetch"
  /\ UNCHANGED <<soup, exit_status, run_side>>

\* fetch_page returns True: the page is parsed
FetchPage ==
  /\ hpc = "fetch"
  /\ soup' \in Pages
  /\ hpc' = "tables"
  /\ UNCHANGED <<url, exit_status, run_side>>

\* fetch_page returns False; main prints the failure
FetchFails ==
  /\ hpc = "fetch"
  /\ hpc' = "end"
  /\ UNCHANGED <<soup, url, exit_status, run_side>>

\* main returns and the process ends
RunExit ==
  /\ hpc = "end"
  /\ exit_status' = 0
  /\ hpc' = "exit"
  /\ UNCHANGED <<soup, url, run_side>>

\* run_scraper.py
NextRun ==
  \/ UrlGiven
  \/ UrlDefault
  \/ FetchPage
  \/ FetchFails
  \/ NextHtml
  \/ RunExit

\* run_scraper.py is started with any number of arguments
InitRun ==
  /\ text = ""
  /\ source_file = ""
  /\ event_date = ""
  /\ ScanIdle
  /\ pc = "idle"
  /\ TextIdle
  /\ TableIdle
  /\ CliIdle
  /\ argc \in {1, 2, 3}
  /\ folder_exists = TRUE
  /\ pdf_files = <<>>
  /\ library = "pdfplumber"
  /\ doc = 0
  /\ page = 0
  /\ handle = "none"
  /\ extracted_data = <<>>
  /\ total_records = 0
  /\ results = <<>>
  /\ csv_file = <<>>
  /\ exit_status = -1
  /\ soup = <<>>
  /\ ti = 0
  /\ table_name = ""
  /\ headers = <<>>
  /\ rows = <<>>
  /\ tr = 0
  /\ table_data = <<>>
  /\ taken = <<>>
  /\ csv_out = <<>>
  /\ hpc = "main"

\* either entry point is started
NextCli == NextMain \/ NextRun

\* final_pdf_scraper.py or run_scraper.py is started
SpecCli == (InitMain \/ InitRun) /\ [][NextCli]_vars

MaxTableRows == 2

\* header rows as pdfplumber gives them: one header for each field, the
\* place first or not; other keywords of the fields; two headers of one
\* field; a header with keywords of two fields; headers without keywords;
\* a single name column; blanks around a header and an empty header cell
HeaderRows ==
  {<<"Pl", "Name", "Team", "Time">>,
   <<"Name", "Place", "School", "Result", "Meet Date">>,
   <<"Place", "Name", "Team", "Time", "Team Rank">>,
   <<"Lane", "Pos", "Rank", "Athlete">>,
   <<"Lane", "Heat">>,
   <<"Name">>,
   <<"", " time ", "Runner">>}

\* data rows: full rows, blanks around cells, empty cells, only a fifth
\* cell, rows shorter than the header row and a row without cells
DataRows ==
  {<<"1", "Ann Lee", "UPR", "9.8", "3">>,
   <<" 2 ", "", " ", "", "">>,
   <<"", "", "", "", "5/1/2024">>,
   <<"4", "Bo Diaz">>,
   <<"", "", "", "">>,
   <<>>}

\* tables of a header row and up to MaxTableRows data rows, and no table
Tables ==
  {<<>>} \cup
  {<<h>> \o rs : h \in HeaderRows,
                 rs \in UNION {[1..n -> DataRows] : n \in 0..MaxTableRows}}

\* process_table is called on a table of a page
InitTable ==
  /\ InitWith({""}, {""}, {"meet.pdf"})
  /\ TextIdle
  /\ DocIdle
  /\ HtmlIdle
  /\ CliIdle
  /\ table \in Tables
  /\ field_indices = <<>>
  /\ hx = 0
  /\ rx = 0
  /\ data_rows = <<>>
  /\ offered = <<>>
  /\ fpc = "table"

SpecTable == InitTable /\ [][NextTable]_vars

MaxBeyond == 1

RECURSIVE Repeated(_, _)
\* s * n, by halves
Repeated(s, n) ==
  IF n <= 0 THEN ""
  ELSE IF n = 1 THEN s
  ELSE Repeated(s, n \div 2) \o Repeated(s, n - n \div 2)

\* texts longer than the span of a scan: a header, at the first line or
\* not; lines without data (blank, or of too few tokens); a data row at a
\* distance from the header of one less than ScanSpan up to MaxBeyond more;
\* and then the end of the text or further lines.  With them short texts:
\* a table cut by a section break, and a table without year column
SpanTexts ==
  {pre \o "PL NAME YEAR TEAM TIME\n" \o Repeated(filler \o "\n", d - 1)
       \o "1 John Smith UPR 9.8" \o post :
     pre \in {"", "Meet\n"},
     filler \in {"", "n/a"},
     d \in (ScanSpan - 1)..(ScanSpan + MaxBeyond),
     post \in {"", "\n\n7 Kim Lee SR College 1:02.5"}}
  \cup {"PL NAME YEAR TEAM TIME\n1 John Smith UPR 9.8\nFINAL RESULTS\n2 Ana Cruz UPR 9.9",
        "PL NAME TEAM TIME\n4 John Paul Smith State 9.9"}

InitSpan == InitWith(SpanTexts, {""}, {"meet.pdf"}) /\ OuterIdle

SpecSpan == InitSpan /\ [][Next]_vars

TypeOK ==
  /\ pc \in {"idle", "main", "folder", "docs", "open", "pages", "read", "call", "date",
            "start", "line", "scan", "leave", "done", "save", "exit"}
  /\ Len(records) = Len(origin)
  /\ it \in 0..Len(lines)

(***************************************************************************)
(* Vocabulary of the properties                                            *)
(***************************************************************************)
\* made only of decimal digits
OnlyDigits(s) == Len(s) >= 1 /\ \A k \in 1..Len(s) : Ch(s, k) \in Digits

\* begins with a digit
BeginsWithDigit(s) == Len(s) >= 1 /\ Ch(s, 1) \in Digits

\* the whitespace-separated tokens of a line
Tokens(line) == SplitWS(Strip(line))

\* the institution keywords that both branches know
InstitutionKeywords ==
  {"University", "Universidad", "College", "UPR", "P.R.", "Caribbean",
   "Interamerican", "Politecnica"}

IsInstitutionToken(tok) == \E kw \in InstitutionKeywords : Contains(tok, kw)

\* <digits> <name tokens> <team tokens, the first with a keyword> <time>
WellFormedRow(line) ==
  LET p == Tokens(line)
  IN  /\ Len(p) >= 4
      /\ OnlyDigits(p[1])
      /\ BeginsWithDigit(p[Len(p)])
      /\ \E k \in 3..(Len(p) - 1) : IsInstitutionToken(p[k])

\* the lines the scan of the header at h gets to: inside the range of the
\* scan, with no section break between the header and the line
Reached(h) ==
  {l \in (h + 1)..(Min(h + ScanSpan, Len(lines)) - 1) :
     \A m \in (h + 1)..(l - 1) : ~IsSectionBreak(Strip(lines[m + 1]))}

\* the records, as indices, that the scan of header h made from line l
RecordsOf(h, l) ==
  {k \in 1..Len(origin) : origin[k].hdr = h /\ origin[k].line = l}

\* the records, as indices, made from line l by any scan
RecordsOfLine(l) == {k \in 1..Len(origin) : origin[k].line = l}

\* the data line takes the branch with year extraction
TakesYearBranch(p, y) == y /\ Len(p) >= 5

\* a year token: a 4-digit value in 2020..2030, or an academic-year code
\* (FR, SO, JR, SR or GR in either case, then an optional hyphen, then any
\* digits)
YearLike(tok) ==
  \/ tok \in {"2020", "2021", "2022", "2023", "2024", "2025", "2026", "2027",
              "2028", "2029", "2030"}
  \/ /\ Len(tok) >= 2
     /\ Upper(SubSeq(tok, 1, 2)) \in {"FR", "SO", "JR", "SR", "GR"}
     /\ LET after == SubSeq(tok, 3, Len(tok))
        IN  \/ after = ""
            \/ OnlyDigits(after)
            \/ Head(after) = "-" /\ (Len(after) = 1 \/ OnlyDigits(Tail(after)))

\* the positions, among the interior tokens of p, of the year tokens
YearsAt(p) ==
  {k \in 1..(Len(p) - 2) : YearLike(p[k + 1])}

\* the interior tokens that go into NAME and TEAM: under the branch with
\* year extraction, the first year token is left out
NameTeamTokens(p, y) ==
  LET mid == SubSeq(p, 2, Len(p) - 1)
      yrs == YearsAt(p)
  IN  IF TakesYearBranch(p, y) /\ yrs # {}
      THEN LET f == CHOOSE k \in yrs : \A m \in yrs : k <= m
           IN  SubSeq(mid, 1, f - 1) \o SubSeq(mid, f + 1, Len(mid))
      ELSE mid

\* the keyword list of the branch the line takes
BranchKeywords(p, y) ==
  IF TakesYearBranch(p, y) THEN TeamKeywordsYear ELSE TeamKeywordsNoYear

\* the positions in toks of the tokens that contain a keyword of kws
KeywordAt(toks, kws) ==
  {k \in 1..Len(toks) : \E n \in 1..Len(kws) : Contains(toks[k], kws[n])}

\* the tokens in front of the first keyword token join to more than one
\* character
NameLongEnough(p, y) ==
  LET toks == NameTeamTokens(p, y)
      ks == KeywordAt(toks, BranchKeywords(p, y))
      f == CHOOSE k \in ks : \A m \in ks : k <= m
  IN  ks # {} /\ Len(Join(SubSeq(toks, 1, f - 1))) > 1

(***************************************************************************)
(* C1                                                                      *)
(***************************************************************************)
\* C1 as stated: when the call has returned, every well-formed data line
\* that follows a header line has exactly one record, whose PL is the
\* line's first token and whose TIME is its last token.
C1_OneRecordPerWellFormedLine ==
  pc = "done" =>
    \A l \in 0..(Len(lines) - 1) :
      (/\ \E h \in 0..(l - 1) : IsHeader(lines[h + 1])
       /\ WellFormedRow(lines[l + 1]))
      => /\ Cardinality(RecordsOfLine(l)) = 1
         /\ \A k \in RecordsOfLine(l) :
              /\ records[k].PL = Tokens(lines[l + 1])[1]
              /\ records[k].TIME = Tokens(lines[l + 1])[Len(Tokens(lines[l + 1]))]

\* C1 amended: when the call has returned, for every scan of a header and
\* every well-formed data line the scan reached, the scan made exactly one
\* record from the line if the tokens in front of the first keyword token
\* (the year token left out under the year branch) join to more than one
\* character, and none otherwise; the record's PL is the line's first
\* token and its TIME the last.
C1_OneRecordPerReachedLine ==
  pc = "done" =>
    \A n \in 1..Len(scanned) :
      \A l \in Reached(scanned[n].hdr) :
        WellFormedRow(lines[l + 1]) =>
          LET p == Tokens(lines[l + 1])
              made == RecordsOf(scanned[n].hdr, l)
          IN  /\ Cardinality(made) =
                   IF NameLongEnough(p, scanned[n].has_year) THEN 1 ELSE 0
              /\ \A k \in made :
                   records[k].PL = p[1] /\ records[k].TIME = p[Len(p)]

\* a scan reached a well-formed line with a long enough name and made its
\* one record, and reached another whose name is too short and made none
C1_Witness ==
  /\ pc = "done"
  /\ \E n \in 1..Len(scanned) :
       \E l1, l2 \in Reached(scanned[n].hdr) :
         /\ WellFormedRow(lines[l1 + 1])
         /\ WellFormedRow(lines[l2 + 1])
         /\ Cardinality(RecordsOf(scanned[n].hdr, l1)) = 1
         /\ Cardinality(RecordsOf(scanned[n].hdr, l2)) = 0

(***************************************************************************)
(* C2                                                                      *)
(***************************************************************************)
\* C2: every record has a PL made only of digits, a NAME and a TEAM longer
\* than one character and a TIME that begins with a digit; SOURCE_FILE is
\* the non-empty file name given, so only YEAR and EVENT_DATE can be empty.
C2_RecordFieldsValid ==
  \A k \in 1..Len(records) :
    /\ OnlyDigits(records[k].PL)
    /\ Len(records[k].NAME) > 1
    /\ Len(records[k].TEAM) > 1
    /\ BeginsWithDigit(records[k].TIME)
    /\ records[k].SOURCE_FILE # ""

\* a record was made whose YEAR and EVENT_DATE are both empty, and one
\* whose YEAR is not
C2_Witness ==
  /\ \E k \in 1..Len(records) :
       records[k].YEAR = "" /\ records[k].EVENT_DATE = ""
  /\ \E k \in 1..Len(records) : records[k].YEAR # ""

(***************************************************************************)
(* C6                                                                      *)
(***************************************************************************)
\* C6: in every record, NAME and TEAM are the split of the line's interior
\* tokens (year token removed) at the first token that contains a keyword
\* of the branch's list, or after the first two tokens when no token
\* contains one; a line the scan got to with two such tokens and no keyword
\* among them has no record.
C6_NameTeamSplit ==
  /\ \A k \in 1..Len(records) :
       LET p == Tokens(lines[origin[k].line + 1])
           toks == NameTeamTokens(p, origin[k].has_year)
           ks == KeywordAt(toks, BranchKeywords(p, origin[k].has_year))
           f == IF ks = {} THEN 3 ELSE CHOOSE n \in ks : \A m \in ks : n <= m
       IN  /\ records[k].NAME = Join(SubSeq(toks, 1, f - 1))
           /\ records[k].TEAM = Join(SubSeq(toks, f, Len(toks)))
  /\ pc = "done" =>
       \A n \in 1..Len(scanned) :
         \A l \in Reached(scanned[n].hdr) :
           LET p == Tokens(lines[l + 1])
               toks == NameTeamTokens(p, scanned[n].has_year)
           IN  (/\ Len(p) >= 4
                /\ Len(toks) = 2
                /\ KeywordAt(toks, BranchKeywords(p, scanned[n].has_year)) = {})
               => RecordsOf(scanned[n].hdr, l) = {}

\* one record came from a split at a keyword token, another from the split
\* after the first two tokens of a line without a keyword token
C6_Witness ==
  /\ pc = "done"
  /\ \E k1, k2 \in 1..Len(records) :
       LET p1 == Tokens(lines[origin[k1].line + 1])
           p2 == Tokens(lines[origin[k2].line + 1])
       IN  /\ KeywordAt(NameTeamTokens(p1, origin[k1].has_year),
                        BranchKeywords(p1, origin[k1].has_year)) # {}
           /\ KeywordAt(NameTeamTokens(p2, origin[k2].has_year),
                        BranchKeywords(p2, origin[k2].has_year)) = {}

(***************************************************************************)
(* C7                                                                      *)
(***************************************************************************)
\* C7: a record made under a year-bearing table from a line of at least 5
\* tokens has as YEAR the first interior year token, which is then not
\* among the tokens of NAME and TEAM, or the empty string when no interior
\* token is a year token; a record made under a year-less table has an
\* empty YEAR.
C7_YearField ==
  \A k \in 1..Len(records) :
    LET p == Tokens(lines[origin[k].line + 1])
        yrs == YearsAt(p)
        f == CHOOSE n \in yrs : \A m \in yrs : n <= m
    IN  /\ (origin[k].has_year /\ Len(p) >= 5 /\ yrs # {}) =>
             /\ records[k].YEAR = p[f + 1]
             /\ records[k].NAME \o " " \o records[k].TEAM =
                  Join(SubSeq(p, 2, f) \o SubSeq(p, f + 2, Len(p) - 1))
        /\ (origin[k].has_year /\ Len(p) >= 5 /\ yrs = {}) =>
             records[k].YEAR = ""
        /\ ~origin[k].has_year => records[k].YEAR = ""

\* under a year-bearing table, a record with a year taken out of its line
\* and a record from a line of at least 5 tokens with no year to take
C7_Witness ==
  /\ \E k \in 1..Len(records) : origin[k].has_year /\ records[k].YEAR # ""
  /\ \E k \in 1..Len(records) :
       /\ origin[k].has_year
       /\ Len(Tokens(lines[origin[k].line + 1])) >= 5
       /\ records[k].YEAR = ""
  /\ \E k \in 1..Len(records) :
       /\ origin[k].has_year
       /\ Len(Tokens(lines[origin[k].line + 1])) >= 5
       /\ records[k].YEAR = ""

(***************************************************************************)
(* C8                                                                      *)
(***************************************************************************)
\* C8: for the data line under the scan, if it has at least 5 tokens and
\* no interior year token, the branch for year-less tables and the branch
\* for year-bearing tables produce the same PL, NAME, TEAM and TIME.
C8_YearlessBranchSameAsYearBranch ==
  (IsRow /\ Len(Parts) >= 5 /\ YearsAt(Parts) = {}) =>
    RowNoYear(Parts, source_file, event_date)
      = RowYear(Parts, source_file, event_date)

(***************************************************************************)
(* C9                                                                      *)
(***************************************************************************)
\* only upper-case letters and whitespace, and more than 10 characters
\* after trimming
UpperOnlyLine(line) ==
  LET t == Strip(line)
  IN  /\ Len(t) > 10
      /\ \A k \in 1..Len(t) :
           Ch(t, k) \in UpperSet \union {" ", "\t"}

\* C9: no record of a table's scan comes from an upper-case line of more
\* than 10 characters or from a line after one: between the header and the
\* line of any record, the record's line included, there is no such line.
C9_SectionBreakEndsTable ==
  \A k \in 1..Len(records) :
    \A m \in (origin[k].hdr + 1)..origin[k].line : ~UpperOnlyLine(lines[m + 1])

\* a scan was ended by such a line and left a well-formed line behind it
\* without a record
C9_Witness ==
  /\ pc = "done"
  /\ \E n \in 1..Len(scanned) :
       \E m \in Reached(scanned[n].hdr) :
         /\ UpperOnlyLine(lines[m + 1])
         /\ \E l \in (m + 1)..(Len(lines) - 1) :
              /\ WellFormedRow(lines[l + 1])
              /\ NameLongEnough(Tokens(lines[l + 1]), scanned[n].has_year)
              /\ RecordsOf(scanned[n].hdr, l) = {}

(***************************************************************************)
(* C10                                                                     *)
(***************************************************************************)
\* C10: every record comes from a line whose first token is made only of
\* digits, under year-bearing and year-less tables alike.
C10_NoRecordWithoutDigitPlace ==
  \A k \in 1..Len(records) :
    OnlyDigits(Tokens(lines[origin[k].line + 1])[1])

\* a line that is well-formed but for its first token was reached by the
\* scan of a year-bearing table and by the scan of a year-less table
C10_Witness ==
  /\ pc = "done"
  /\ \E n1, n2 \in 1..Len(scanned) :
       \E l \in Reached(scanned[n1].hdr) \cap Reached(scanned[n2].hdr) :
         LET p == Tokens(lines[l + 1])
         IN  /\ scanned[n1].has_year
             /\ ~scanned[n2].has_year
             /\ Len(p) >= 5
             /\ ~OnlyDigits(p[1])
             /\ BeginsWithDigit(p[Len(p)])
             /\ \E k \in 3..(Len(p) - 1) : IsInstitutionToken(p[k])
             /\ RecordsOfLine(l) = {}

(***************************************************************************)
(* C3                                                                      *)
(***************************************************************************)
\* C3 as stated: at most one header position is processed per call.
C3_AtMostOneHeader == Len(scanned) <= 1

\* C3 amended: once a pattern has matched a line and the scan of its data
\* lines is over, no further pattern is tried on that line, and the search
\* goes on with the next line: the header positions processed are the
\* lines that match a header pattern, each processed once, in text order.
C3_EachHeaderOnce ==
  /\ \A n \in 1..Len(scanned) : IsHeader(lines[scanned[n].hdr + 1])
  /\ \A n, m \in 1..Len(scanned) : n < m => scanned[n].hdr < scanned[m].hdr
  /\ pc = "done" =>
       \A l \in 0..(Len(lines) - 1) :
         IsHeader(lines[l + 1]) => \E n \in 1..Len(scanned) : scanned[n].hdr = l

\* the call returned after processing two header positions, the first of
\* them a line that more than one pattern matches
C3_Witness ==
  /\ pc = "done"
  /\ Len(scanned) >= 2
  /\ Cardinality(MatchingPatterns(lines[scanned[1].hdr + 1])) >= 2

(***************************************************************************)
(* C4                                                                      *)
(***************************************************************************)
\* C4: no line of the text has more than one record.
C4_OneRecordPerLine ==
  \A l \in 0..(Len(lines) - 1) : Cardinality(RecordsOfLine(l)) <= 1

(***************************************************************************)
(* C5                                                                      *)
(***************************************************************************)
\* the lines, among the 5 after line h, that are not empty once trimmed
PeekedLines(h) ==
  {l \in (h + 1)..Min(h + 5, Len(lines) - 1) : Strip(lines[l + 1]) # ""}

\* the line has a year token that is neither its first nor its last token
InteriorYear(line) == YearsAt(Tokens(line)) # {}

\* C5 as stated: the year flag of a table is true exactly if the header
\* upper-cased contains YEAR or a non-empty line among the 5 after the
\* header has an interior year token.
C5_YearFlagIffInteriorYear ==
  \A n \in 1..Len(scanned) :
    scanned[n].has_year <=>
      \/ Contains(Upper(lines[scanned[n].hdr + 1]), "YEAR")
      \/ \E l \in PeekedLines(scanned[n].hdr) : InteriorYear(lines[l + 1])

\* C5 amended: the year flag of a table is true exactly if the header
\* upper-cased contains YEAR or one of the 5 lines directly after the
\* header (blank lines counted among the 5) has at least 4 tokens and an
\* interior year token.
C5_YearFlagIffInteriorYearOf4 ==
  \A n \in 1..Len(scanned) :
    scanned[n].has_year <=>
      \/ Contains(Upper(lines[scanned[n].hdr + 1]), "YEAR")
      \/ \E l \in PeekedLines(scanned[n].hdr) :
           Len(Tokens(lines[l + 1])) >= 4 /\ InteriorYear(lines[l + 1])

\* a header without YEAR got the flag from the fifth line after it, the
\* only non-empty line among the 5
C5_Witness ==
  /\ pc = "done"
  /\ \E n \in 1..Len(scanned) :
       LET h == scanned[n].hdr
       IN  /\ ~Contains(Upper(lines[h + 1]), "YEAR")
           /\ scanned[n].has_year
           /\ PeekedLines(h) = {h + 5}
           /\ InteriorYear(lines[h + 6])

(***************************************************************************)
(* Dates, by their shape                                                   *)
(***************************************************************************)
AllIn(w, S) == \A k \in 1..Len(w) : Ch(w, k) \in S

DigitsOfLen(w, lo, hi) == Len(w) \in lo..hi /\ AllIn(w, Digits)

\* a day, or two days with a hyphen, with a comma after it or none
DayPart(m) ==
  LET body == IF m # "" /\ Ch(m, Len(m)) = "," THEN SubSeq(m, 1, Len(m) - 1)
              ELSE m
      ds == SplitOn(body, "-")
  IN  \/ Len(ds) = 1 /\ DigitsOfLen(ds[1], 1, 4)
      \/ Len(ds) = 2 /\ DigitsOfLen(ds[1], 1, 2) /\ DigitsOfLen(ds[2], 0, 2)

\* a word of letters (of three, when abbr), a day part and a year
IsMonthDate(w, abbr) ==
  LET ps == SplitOn(w, " ")
  IN  /\ Len(ps) = 3
      /\ ps[1] # ""
      /\ AllIn(ps[1], LowerSet \cup UpperSet)
      /\ abbr => Len(ps[1]) = 3
      /\ DayPart(ps[2])
      /\ DigitsOfLen(ps[3], 4, 4)

\* yyyy-m-d
IsIsoDate(w) ==
  LET ps == SplitOn(w, "-")
  IN  /\ Len(ps) = 3
      /\ DigitsOfLen(ps[1], 4, 4)
      /\ DigitsOfLen(ps[2], 1, 2)
      /\ DigitsOfLen(ps[3], 1, 2)

\* m/d/yyyy
IsSlashDate(w) ==
  LET ps == SplitOn(w, "/")
  IN  /\ Len(ps) = 3
      /\ DigitsOfLen(ps[1], 1, 2)
      /\ DigitsOfLen(ps[2], 1, 2)
      /\ DigitsOfLen(ps[3], 4, 4)

\* the shape that the p-th pattern of the list describes
DateShape(p, w) ==
  CASE p = 1 -> IsMonthDate(w, FALSE)
    [] p = 2 -> IsMonthDate(w, TRUE)
    [] p = 3 -> IsIsoDate(w)
    [] OTHER -> IsSlashDate(w)

\* where in the text a date of the p-th pattern stands: first and last
\* position
Occurrences(p) ==
  {ab \in (1..Len(text)) \X (1..Len(text)) :
     /\ ab[1] + 7 <= ab[2]
     /\ Ch(text, ab[2]) \in Digits
     /\ DateShape(p, SubSeq(text, ab[1], ab[2]))}

\* the date the contract names: of the first pattern of the list that has
\* an occurrence, the occurrence that begins first (the longest such)
ExpectedDate ==
  LET having == {p \in 1..5 : Occurrences(p) # {}}
  IN  IF having = {} THEN ""
      ELSE LET p == CHOOSE q \in having : \A m \in having : q <= m
               occ == Occurrences(p)
               a == CHOOSE x \in {ab[1] : ab \in occ} :
                      \A ab \in occ : x <= ab[1]
               b == CHOOSE y \in {ab[2] : ab \in {o \in occ : o[1] = a}} :
                      \A ab \in occ : ab[1] = a => ab[2] <= y
           IN  SubSeq(text, a, b)

(***************************************************************************)
(* C11: extract_event_date returns the first occurrence, in text order, of *)
(* the first pattern of the list that occurs anywhere in the text, and the *)
(* empty string when no pattern occurs.                                    *)
(***************************************************************************)
C11_FirstMatchOfFirstPattern ==
  pc = "start" => event_date = ExpectedDate

\* a month date was returned although a numeric date stands before it in
\* the text
C11_Witness ==
  /\ pc = "start"
  /\ IsMonthDate(event_date, FALSE)
  /\ \E ab \in Occurrences(3) \cup Occurrences(4) :
       \E p \in (ab[2] + 1)..Len(text) :
         StartsWithAt(text, p, event_date)
  /\ \A ab \in Occurrences(1) : \E cd \in Occurrences(3) : cd[2] < ab[1]

(***************************************************************************)
(* C12: every record that extract_from_text(text, source_file) returns     *)
(* has the given source_file as its SOURCE_FILE and the one value of       *)
(* extract_event_date(text) as its EVENT_DATE.                             *)
(***************************************************************************)
C12_SourceAndDateOfDocument ==
  (pc = "done" /\ records # <<>>) =>
    LET date == extract_event_date(text)
    IN  \A k \in 1..Len(records) :
          /\ records[k].SOURCE_FILE = source_file
          /\ records[k].EVENT_DATE = date

\* the call returned two records of a text with a date in it
C12_Witness ==
  /\ pc = "done"
  /\ Len(records) >= 2
  /\ records[1].EVENT_DATE # ""
  /\ records[2].EVENT_DATE = records[1].EVENT_DATE

(***************************************************************************)
(* C20: a second call of extract_from_text with the same text and source   *)
(* name returns the same records in the same order as the first.           *)
(***************************************************************************)
C20_SameRecordsOnRerun ==
  (pc = "done" /\ run = 2) => records = first

\* the second call returned, and there are records
C20_Witness ==
  /\ pc = "done"
  /\ run = 2
  /\ Len(records) >= 2

(***************************************************************************)
(* Documents of a run                                                      *)
(***************************************************************************)
\* a document whose text cannot be extracted
Unreadable(d) == library = "none" \/ d.fault \in {"open", "page"}

\* a document that gives no text: unreadable, or without text on any page
Textless(d) ==
  \/ Unreadable(d)
  \/ library = "pdfplumber" /\ \A k \in 1..Len(d.pages) : d.pages[k] = ""

\* the records rs with the source name n in place of theirs
Renamed(rs, n) == [k \in 1..Len(rs) |-> [rs[k] EXCEPT !.SOURCE_FILE = n]]

(***************************************************************************)
(* C13: when process_folder has returned True, every document has been     *)
(* taken; a document whose text cannot be extracted or whose processing    *)
(* raises has given no records; extracted_data is the records of the       *)
(* documents in the order of the documents, each document's records under  *)
(* its own name and the same as those of any other readable document with  *)
(* the same pages; total_records is the length of extracted_data.          *)
(***************************************************************************)
C13_FailuresSkippedRecordsInOrder ==
  pc = "save" =>
    /\ Len(results) = Len(pdf_files)
    /\ extracted_data = Flatten(results)
    /\ total_records = Len(extracted_data)
    /\ \A d \in 1..Len(pdf_files) :
         /\ (Unreadable(pdf_files[d]) \/ pdf_files[d].fault = "parse")
              => results[d] = <<>>
         /\ \A k \in 1..Len(results[d]) :
              results[d][k].SOURCE_FILE = pdf_files[d].name
         /\ \A e \in 1..Len(pdf_files) :
              (/\ pdf_files[d].pages = pdf_files[e].pages
               /\ pdf_files[d].fault = "none"
               /\ pdf_files[e].fault = "none")
                => results[e] = Renamed(results[d], pdf_files[e].name)

\* process_folder returned True after a document whose processing raised
\* and a readable one behind it that gave records
C13_Witness ==
  /\ pc = "save"
  /\ Len(pdf_files) = 2
  /\ pdf_files[1].fault = "parse"
  /\ results[1] = <<>>
  /\ Len(results[2]) >= 2
  /\ extracted_data = results[2]

(***************************************************************************)
(* C14: a run ends with a non-zero exit status exactly when there was no   *)
(* input at all (the folder is missing, holds no PDF file, or no document  *)
(* of it could be read) or the CSV file could not be written.              *)
(***************************************************************************)
C14_ExitStatusTellsFailure ==
  (pc = "exit" /\ argc = 2) =>
    (exit_status # 0 <=>
       \/ ~folder_exists
       \/ pdf_files = <<>>
       \/ \A d \in 1..Len(pdf_files) : Textless(pdf_files[d])
       \/ extracted_data # <<>> /\ csv_file = <<>>)

(***************************************************************************)
(* C15: when extract_text_from_pdf returns, the file or document it        *)
(* opened has been closed.                                                 *)
(***************************************************************************)
C15_HandleClosedOnReturn ==
  pc = "read" => handle # "open"

(***************************************************************************)
(* Tables of a page, by their cells                                        *)
(***************************************************************************)
\* the cell has a character that is not white space
NonBlank(c) == \E k \in 1..Len(c) : ~IsSpace(Ch(c, k))

\* the cell from its first such character to its last
Trimmed(c) ==
  LET at == {k \in 1..Len(c) : ~IsSpace(Ch(c, k))}
  IN  IF at = {} THEN ""
      ELSE SubSeq(c, CHOOSE a \in at : \A k \in at : a <= k,
                     CHOOSE b \in at : \A k \in at : k <= b)

\* the words of the cell with one space between them
Cleaned(c) == Join(SelectSeq(SplitWS(c), LAMBDA w : w # ""))

\* the n-th table of the page
TableOf(n) == soup[Nth(TablePlaces, n)]

\* the headers the contract names: the trimmed texts of the cells of the
\* first row that are not blank
ExpectedHeaders(t) ==
  IF t.trs = <<>> THEN <<>>
  ELSE LET cells == SelectSeq(t.trs[1], NonBlank)
       IN  [k \in 1..Len(cells) |-> Trimmed(cells[k])]

\* the rows the contract names: the rows after the first that have a cell
\* that is not blank, every cell of them in its place
ExpectedRows(t) ==
  LET kept == SelectSeq(SubSeq(t.trs, 2, Len(t.trs)),
                        LAMBDA r : \E k \in 1..Len(r) : NonBlank(r[k]))
  IN  [n \in 1..Len(kept) |-> [k \in 1..Len(kept[n]) |-> Cleaned(kept[n][k])]]

(***************************************************************************)
(* C18: extract_table_data returns as headers the trimmed texts of the     *)
(* non-empty cells of the first row, and as rows, in order, the later      *)
(* rows that have a non-empty cell, each with all of its cells in place.   *)
(***************************************************************************)
C18_HeadersAndKeptRows ==
  \A n \in 1..Len(taken) :
    /\ taken[n].headers = ExpectedHeaders(TableOf(n))
    /\ taken[n].rows = ExpectedRows(TableOf(n))

\* a table was returned without an empty header cell and without a row
\* that had no data, and with a row that has an empty cell between others
C18_Witness ==
  \E n \in 1..Len(taken) :
    /\ Len(TableOf(n).trs) >= 3
    /\ Len(taken[n].headers) < Len(TableOf(n).trs[1])
    /\ Len(taken[n].rows) = Len(TableOf(n).trs) - 2
    /\ \E r \in 1..Len(taken[n].rows) :
         /\ Len(taken[n].rows[r]) = 4
         /\ taken[n].rows[r][2] = ""
         /\ taken[n].rows[r][3] = "Ann Lee"

(***************************************************************************)
(* C17: when find_all_tables has returned, the rows of every table of the  *)
(* page that has a kept row stand in the mapping under the table's label.  *)
(***************************************************************************)
C17_RowsOfEveryTableKept ==
  hpc \in {"save", "end"} =>
    \A n \in 1..Len(taken) :
      taken[n].rows # <<>> =>
        \E k \in 1..Len(table_data) :
          /\ table_data[k].name = TableName(n - 1)
          /\ table_data[k].data.rows = taken[n].rows

(***************************************************************************)
(* C16: every data row of the combined file has 22 fields, and its         *)
(* Row_Number is 1 or, in the same table, one more than the row before.    *)
(***************************************************************************)
C16_CombinedRowsOf22Fields ==
  \A r \in 2..Len(csv_out) :
    /\ Len(csv_out[r]) = 22
    /\ \/ csv_out[r][2] = "1"
       \/ /\ r > 2
          /\ csv_out[r - 1][1] = csv_out[r][1]
          /\ csv_out[r][2] = Str(ToInt(csv_out[r - 1][2]) + 1)

\* the keywords of the five fields: place, position or rank; name or
\* athlete; team or school; time or result; date
FieldWords ==
  [PL |-> {"PLACE", "POSITION", "RANK"},
   NAME |-> {"NAME", "ATHLETE"},
   TEAM |-> {"TEAM", "SCHOOL"},
   TIME |-> {"TIME", "RESULT"},
   EVENT_DATE |-> {"DATE"}]

\* the header cell holds a keyword of the field, in any case of letters
HoldsWord(cell, f) == \E w \in FieldWords[f] : Contains(Upper(cell), w)

\* the cell of a data row at the column mapped to a field, without the
\* blanks around it; empty if the field has no column
CellAt(r, f) ==
  IF field_indices[f] = None THEN ""
  ELSE Trimmed(table[r + 1][field_indices[f] + 1])

\* the record expected for the data row r
ExpectedRecord(r) ==
  [PL |-> CellAt(r, "PL"), NAME |-> CellAt(r, "NAME"),
   TEAM |-> CellAt(r, "TEAM"), TIME |-> CellAt(r, "TIME"),
   SOURCE_FILE |-> source_file, EVENT_DATE |-> CellAt(r, "EVENT_DATE")]

\* the rows given to the mapper for which a record is expected
RowsWithField ==
  {k \in 1..Len(offered) :
     \E f \in {"PL", "NAME", "TEAM", "TIME"} : CellAt(offered[k], f) # ""}

\* C19: once the headers of a table have been inspected, every header cell
\* holding a keyword of a field is the column mapped to that field; and
\* once the data rows have been mapped, there is one record for each data
\* row with a non-empty cell at the column of PL, NAME, TEAM or TIME, in
\* the order of the rows, holding the row's cells at the mapped columns and
\* the source file, and no record for any other row
C19_KeywordHeadersMappedRowsEmitted ==
  /\ (fpc \in {"rows", "return"} /\ Len(table) >= 2) =>
        \A k \in 1..Len(table[1]) : \A f \in DOMAIN FieldWords :
           HoldsWord(table[1][k], f) => field_indices[f] = k - 1
  /\ (fpc = "return" /\ Len(table) >= 2) =>
        /\ Len(data_rows) = Cardinality(RowsWithField)
        /\ \A n \in 1..Len(data_rows) :
              data_rows[n] = ExpectedRecord(offered[Nth(RowsWithField, n)])

\* nothing of the folder has been processed and nothing saved
NothingProcessed ==
  /\ doc = 0
  /\ extracted_data = <<>>
  /\ csv_file = <<>>
  /\ records = <<>>

\* nothing has been fetched and nothing saved
NothingFetched ==
  /\ soup = <<>>
  /\ table_data = <<>>
  /\ csv_out = <<>>

\* C21 as claimed: an entry point started without its argument prints the
\* usage message and ends with a non-zero exit status, having processed
\* no input; this for the PDF scraper (final_pdf_scraper.py) and for the
\* HTML scraper (run_scraper.py)
C21_MissingArgumentUsageExit ==
  /\ (argc < 2 /\ pc = "exit") =>
        usage /\ exit_status # 0 /\ NothingProcessed
  /\ (argc < 2 /\ hpc \notin {"idle", "main"}) =>
        usage /\ hpc = "exit" /\ exit_status # 0 /\ NothingFetched

\* C21 amended: the PDF scraper started with no argument (or with more
\* than one) prints the usage message and ends with exit status 1, having
\* processed no input; the HTML scraper started without an argument
\* prints no usage message and scrapes the default URL, ending with exit
\* status 0, and started with an argument it scrapes the URL given
C21_UsageForFolderDefaultForUrl ==
  /\ (argc # 2 /\ pc = "exit") =>
        usage /\ exit_status = 1 /\ NothingProcessed
  /\ (argc = 2 /\ pc # "idle") => ~usage
  /\ (argc < 2 /\ hpc \notin {"idle", "main"}) =>
        /\ ~usage
        /\ url = default_url
        /\ hpc = "exit" => exit_status = 0
  /\ (argc >= 2 /\ hpc \notin {"idle", "main"}) =>
        /\ ~usage
        /\ url \in GivenUrls

\* the HTML scraper has ended after a start without argument, having saved
\* the tables of the default URL
C21_Witness == argc < 2 /\ hpc = "exit" /\ Len(csv_out) > 1

\* C22: the scan after the header at line i is bounded: when its loop over
\* the lines runs out, the lines i+1 through i+200 (or through the last
\* line, if the text ends before) have been examined, so that the next line
\* it would take is line i+201 (or the end of the text); and no record of
\* the header's table comes from a line further than 200 lines behind it
C22_ScanExaminesNext200Lines ==
  /\ (pc = "scan" /\ j >= jend) =>
        j = Min(hdr + 200 + 1, Len(lines))
  /\ \A k \in 1..Len(origin) :
        /\ origin[k].line > origin[k].hdr
        /\ origin[k].line <= origin[k].hdr + 200

\* the data rows of the table that are not shorter than its header row,
\* by their numbers and in their order
FullRows ==
  LET at == {r \in 1..(Len(table) - 1) :
               Len(table[r + 1]) # 0 /\ Len(table[r + 1]) >= Len(table[1])}
  IN  [n \in 1..Cardinality(at) |-> Nth(at, n)]

\* C23: process_table does not give up on a table of at least two rows in
\* which some header cell, at any column and also at the first, maps to
\* one of PL, NAME, TEAM, TIME and EVENT_DATE: when it returns, the loop
\* over the data rows has been entered and the data rows have been given
\* to the record mapper
C23_RecognisedTableReachesMapper ==
  (/\ fpc = "return"
   /\ Len(table) >= 2
   /\ \E f \in {"PL", "NAME", "TEAM", "TIME", "EVENT_DATE"} :
        field_indices[f] # None)
  => /\ rx # 0
     /\ offered = FullRows

====
